---- MODULE Spec2Model ----
(***************************************************************************)
(* A model of the rc-stickynote hub: the listener loop of                  *)
(* ServeCommand::cli, the per-connection handler task spawned by           *)
(* handle_new_stickyproto_connection, the Twitter webhook publisher, the   *)
(* tokio broadcast channel that connects them, and the validation          *)
(* predicate of the protocol crate; and of its clients: the displayer's    *)
(* main loop with its hub connection, the renderer thread it feeds, and    *)
(* the set-status command.                                                 *)
(*                                                                         *)
(* A text is a sequence of Unicode code points; its Rust `len()` is the    *)
(* number of bytes of its UTF-8 encoding.  A timestamp is a number of      *)
(* seconds.  Every `.await` of a task is a point where other tasks may     *)
(* run, so a handler is one action per stretch of code between awaits.     *)
(***************************************************************************)
EXTENDS Integers, Sequences, FiniteSets, TLC

(***************************************************************************)
(* Bounds of the model.                                                    *)
(***************************************************************************)
NumConns == 2      \* connections accepted during a run
MaxPub == 1        \* mutations published during a run
MaxFrames == 2     \* loop iterations of all displayer handlers during a run
MaxAscii == 25     \* longest run of one-byte characters in a tested text
MaxWide == 8       \* longest run of three-byte characters in a tested text
SoloMaxPub == 6    \* SoloSpec: mutations published during a run
SoloMaxFrames == 3 \* SoloSpec: loop iterations of the displayer handler during a run
ListenerMaxPub == 5        \* ListenerSpec: mutations published during a run
MaxClockSteps == 10        \* ClientSpec: steps of the clock during a run
MaxAcceptErrors == 1       \* ListenerSpec: failed accepts during a run
MaxItems == 5              \* RenderSpec: display data sent to the renderer during a run

Conns == 1..NumConns

(***************************************************************************)
(* Texts.                                                                  *)
(***************************************************************************)
Rep(cp, n) == [i \in 1..n |-> cp]

\* Number of bytes of the UTF-8 encoding of one code point.
Utf8Len(cp) ==
    IF cp < 128 THEN 1 ELSE IF cp < 2048 THEN 2 ELSE IF cp < 65536 THEN 3 ELSE 4

\* str::len(): the byte length of a text.
RECURSIVE StrLen(_)
StrLen(s) == IF s = <<>> THEN 0 ELSE Utf8Len(Head(s)) + StrLen(Tail(s))

\* protocol/src/lib.rs: person_is.len() < 23
is_person_is_valid_chars(person_is) == Len(person_is) < 23
is_person_is_valid_off_by_one(person_is) == StrLen(person_is) <= 23
is_person_is_valid(person_is) == StrLen(person_is) < 23

\* "whereabouts unknown"
WhereaboutsUnknown ==
    <<119,104,101,114,101,97,98,111,117,116,115,32,117,110,107,110,111,119,110>>
\* "in the lab"
InTheLab == <<105,110,32,116,104,101,32,108,97,98>>
\* 7 euro signs and "a": 8 characters, 22 bytes, the longest valid length
Text22 == Rep(8364, 7) \o Rep(97, 1)
\* 7 euro signs and "aa": 9 characters, 23 bytes, the shortest invalid length
Text23 == Rep(8364, 7) \o Rep(97, 2)
\* 8 times the euro sign: 8 characters, 24 bytes
Wide8 == Rep(8364, 8)

\* The texts the validation predicate is tried on: i times "a", then j euro signs.
TestTexts == {Rep(97, i) \o Rep(8364, j) : i \in 0..MaxAscii, j \in 0..MaxWide}

(***************************************************************************)
(* Messages.                                                               *)
(***************************************************************************)
\* DisplayMessage::default(); the hub's start is second 0.
DefaultDisplayMessage ==
    [person_is |-> WhereaboutsUnknown, person_is_timestamp |-> 0]

PersonIsUpdateHelloMessage(p, t) == [person_is |-> p, timestamp |-> t]

\* What the read of the first frame of a connection can yield: Some(Err(_)) for a
\* frame that does not decode or a failed read, None for a clean end of stream,
\* or a decoded ClientHelloMessage.
FirstFrames ==
    { [kind |-> "Err"], [kind |-> "Eof"], [kind |-> "Display"] }
    \cup { [kind |-> "PersonIsUpdate", msg |-> PersonIsUpdateHelloMessage(p[1], p[2])] :
             p \in {<<InTheLab, 2>>, <<Text22, 1>>, <<Text23, 3>>} }

\* The Twitter direct-message events posted to the webhook.
WebhookEvent(sig, sender, text, ms) ==
    [signature_ok |-> sig, sender_ok |-> sender, text |-> text, created_timestamp |-> ms]
WebhookEvents ==
    { WebhookEvent(TRUE, TRUE, InTheLab, 2999), WebhookEvent(TRUE, TRUE, Wide8, 2999),
      WebhookEvent(FALSE, TRUE, InTheLab, 2999), WebhookEvent(TRUE, FALSE, InTheLab, 2999) }
\* The same, with texts on both sides of the length limit.
BoundaryWebhookEvents ==
    WebhookEvents \cup
    { WebhookEvent(TRUE, TRUE, Text22, 1000), WebhookEvent(TRUE, TRUE, Text23, 1000) }

\* DisplayStateMutation::consume_into for SetPersonIs(msg)
consume_into_if_newer(msg, state) ==
    IF msg.timestamp >= state.person_is_timestamp
    THEN [person_is |-> msg.person_is, person_is_timestamp |-> msg.timestamp]
    ELSE state
consume_into_timestamp_only(msg, state) ==
    [state EXCEPT !.person_is_timestamp = msg.timestamp]
consume_into_text_only(msg, state) == [state EXCEPT !.person_is = msg.person_is]
consume_into(msg, state) ==
    [person_is |-> msg.person_is, person_is_timestamp |-> msg.timestamp]

\* The DisplayMessage a mutation turns any state into.
AsDisplay(msg) == [person_is |-> msg.person_is, person_is_timestamp |-> msg.timestamp]

VARIABLES
    display_state,    \* the listener loop's DisplayMessage
    channel,          \* every mutation sent on the broadcast channel, oldest first
    receive_updates,  \* position of the listener loop's receiver in `channel`
    conn,             \* per connection: the handler task and what it did
    listener,         \* the listener loop: where it is, and how many accepts failed
    webhook,          \* history: the last webhook event handled and the result of `inner`
    run,              \* the bounds of this run; never changes
    status,           \* ValidSpec: the text given to is_person_is_valid
    status_valid,     \* ValidSpec: "unchecked", or the predicate's answer
    client,           \* ClientSpec: the displayer client's main loop
    set_status,       \* ValidSpec: the set-status command
    renderer          \* RenderSpec: the renderer thread and its queue

vars == <<display_state, channel, receive_updates, conn, listener, webhook, run,
          status, status_valid, client, set_status, renderer>>

hubVars == <<display_state, channel, receive_updates, conn, listener, webhook, run>>
validVars == <<status, status_valid, client, set_status, renderer>>

(***************************************************************************)
(* The broadcast channel, channel(4).                                      *)
(***************************************************************************)
Capacity == 4

\* Number of live receivers: the listener loop's and one per streaming displayer.
NumReceiversDisplayersOnly == Cardinality({c \in Conns : conn[c].subscribed})
NumReceivers == 1 + Cardinality({c \in Conns : conn[c].subscribed})

\* Sender::send: fails when there is no receiver, else stores the value.
SendOk == NumReceivers > 0
AfterSend(msg) == IF SendOk THEN Append(channel, msg) ELSE channel

\* Receiver::next at position `next`: "Empty" (pending), "Lagged" or "Ok".
RecvKindOffByOne(next) ==
    IF next + Capacity <= Len(channel) THEN "Lagged"
    ELSE IF next < Len(channel) THEN "Ok"
    ELSE "Empty"
RecvKind(next) ==
    IF next + Capacity < Len(channel) THEN "Lagged"
    ELSE IF next < Len(channel) THEN "Ok"
    ELSE "Empty"

\* The receiver's position after that receive.
RecvNextLagSkipsAll(next) ==
    CASE RecvKind(next) = "Lagged" -> Len(channel)
      [] RecvKind(next) = "Ok" -> next + 1
      [] OTHER -> next
RecvNext(next) ==
    CASE RecvKind(next) = "Lagged" -> Len(channel) - Capacity
      [] RecvKind(next) = "Ok" -> next + 1
      [] OTHER -> next

\* The value an "Ok" receive delivers.
RecvValueNewest(next) == channel[Len(channel)]
RecvValue(next) == channel[next + 1]

(***************************************************************************)
(* The displayer client's main loop (main_cli), at its start.              *)
(***************************************************************************)
WakeupMillis == 60000    \* wakeup_interval
RetryMillis == 180000    \* hub_retry_duration

\* Time moves in steps of half a wakeup period.
ClockStep == WakeupMillis \div 2

ClientStart ==
    [ connection |-> "Initializing",   \* ServerConnection: Initializing, Open, Failed
      pc |-> "select",             \* select, or inside get_next_message: connecting, greeting
      now |-> 0,                   \* the clock, in ms since the loop began
      last_hub_update |-> 0,
      next_tick |-> 0,             \* when wakeup_interval fires next; the first tick is at once
      attempts |-> 0,              \* history: calls of config.connect()
      failed_at |-> -1,            \* history: when the connection last failed, or -1
      reports |-> 0,               \* history: errors get_next_message returned
      opened |-> 0,                \* history: connections config.connect() returned
      hellos |-> 0,                \* history: hello sends that returned Ok
      hello_errors |-> 0,          \* history: hello sends that returned Err
      cut |-> 0,                   \* history: connections dropped during the hello send
      wire |-> <<>>,               \* history: frames sent on the latest connection
      has_read |-> FALSE ]         \* history: try_next was polled on that connection

(***************************************************************************)
(* The set-status command (set_status_cli), at its start.                  *)
(***************************************************************************)
SetStatusStart ==
    [ pc |-> "validate",           \* validate, setup, connecting, sending, done
      rv |-> "running",            \* the command's result: running, Ok, Err
      opened |-> 0,                \* history: connections config.connect() returned
      sent |-> <<>> ]              \* history: frames sent to the hub

(***************************************************************************)
(* The renderer thread (renderer_thread_inner) and the queue main_cli      *)
(* feeds, at their start.  An item of display data is named by its number  *)
(* in the order sent.                                                      *)
(***************************************************************************)
RendererStart ==
    [ pc |-> "recv",               \* recv, drain, render, exited
      queue |-> <<>>,              \* the mpsc channel, oldest first
      dd |-> 0,                    \* the item the thread holds, or 0
      sent |-> 0,                  \* history: items main_cli sent
      rendered |-> <<>> ]          \* history: items shown on the display

(***************************************************************************)
(* Initial state.                                                          *)
(***************************************************************************)
NoConn ==
    [ pc |-> "NotConnected",       \* NotConnected, AwaitingHello, Streaming, Sending, Closed
      result |-> "running",        \* the task's result: running, Ok, Err
      display_state |-> DefaultDisplayMessage,   \* the handler's own DisplayMessage
      subscribed |-> FALSE,        \* the handler holds a receiver
      receive_updates |-> 0,       \* position of that receiver
      tick |-> FALSE,              \* interval.tick() is ready
      seed |-> DefaultDisplayMessage,   \* history: the snapshot passed at accept
      hello |-> [kind |-> "none"], \* history: what the first read yielded
      published |-> <<>>,          \* history: mutations this handler sent
      wakes |-> <<>>,              \* history: what woke each loop iteration
      sent |-> <<>>,               \* history: frames written to the socket
      owed |-> {},                 \* history: mutations sent on the channel while this
                                   \* handler was subscribed, since its last frame
      peer_closed_at |-> -1 ]      \* history: loop iterations begun when the client
                                   \* closed its socket, or -1

HubInit ==
    /\ display_state = DefaultDisplayMessage
    /\ channel = <<>>
    /\ receive_updates = 0
    /\ conn = [c \in Conns |-> NoConn]
    /\ listener = [pc |-> "select", accept_errors |-> 0, lags |-> 0]
    /\ webhook = [rv |-> "none"]

\* The bounds of a run: connections accepted, mutations published, displayer loop
\* iterations, failed accepts, the events posted to the webhook, and which
\* histories are kept ("owed", "webhook").
Run(conns, pubs, frames, accept_errors, events, record) ==
    [conns |-> conns, pubs |-> pubs, frames |-> frames,
     accept_errors |-> accept_errors, events |-> events, record |-> record]

Init ==
    /\ HubInit
    /\ run = Run(NumConns, MaxPub, MaxFrames, 0, WebhookEvents, {"owed"})
    /\ status = <<>>
    /\ status_valid = "unchecked"
    /\ client = ClientStart
    /\ set_status = SetStatusStart
    /\ renderer = RendererStart

\* Loop iterations begun so far by all displayer handlers.
RECURSIVE SumWakes(_)
SumWakes(n) == IF n = 0 THEN 0 ELSE Len(conn[n].wakes) + SumWakes(n - 1)
Iterations == SumWakes(NumConns)

\* History: `msgs` were sent on the channel; note them for every subscribed handler.
Owing(cs, msgs) ==
    [c \in Conns |-> IF cs[c].subscribed /\ "owed" \in run.record
                     THEN [cs[c] EXCEPT !.owed = @ \cup msgs]
                     ELSE cs[c]]

(***************************************************************************)
(* The listener loop (ServeCommand::cli).                                  *)
(***************************************************************************)
\* sp_incoming.next() yields a socket: spawn its handler with a clone of display_state.
ListenerAcceptInline(c) ==
    /\ listener.pc = "select"
    /\ c <= run.conns
    /\ conn[c].pc = "NotConnected"
    /\ \A d \in Conns : d < c => conn[d].pc = "Closed"
    /\ conn' = [conn EXCEPT ![c] = [@ EXCEPT !.pc = "AwaitingHello",
                                             !.display_state = display_state,
                                             !.seed = display_state]]
    /\ UNCHANGED <<display_state, channel, receive_updates, validVars, listener, webhook, run>>
ListenerAccept(c) ==
    /\ listener.pc = "select"
    /\ c <= run.conns
    /\ conn[c].pc = "NotConnected"
    /\ \A d \in Conns : d < c => conn[d].pc # "NotConnected"
    /\ conn' = [conn EXCEPT ![c] = [@ EXCEPT !.pc = "AwaitingHello",
                                             !.display_state = display_state,
                                             !.seed = display_state]]
    /\ UNCHANGED <<display_state, channel, receive_updates, validVars, listener, webhook, run>>

\* receive_updates.next() yields: apply a mutation, or log a lag.
ListenerReceiveAfterAccepts ==
    /\ listener.pc = "select"
    /\ \A c \in Conns : c <= run.conns => conn[c].pc # "NotConnected"
    /\ RecvKind(receive_updates) # "Empty"
    /\ display_state' =
          IF RecvKind(receive_updates) = "Ok"
          THEN consume_into(RecvValue(receive_updates), display_state)
          ELSE display_state
    /\ receive_updates' = RecvNext(receive_updates)
    /\ listener' = IF RecvKind(receive_updates) = "Lagged"
                   THEN [listener EXCEPT !.lags = @ + 1]
                   ELSE listener
    /\ UNCHANGED <<channel, conn, validVars, webhook, run>>
ListenerReceive ==
    /\ listener.pc = "select"
    /\ RecvKind(receive_updates) # "Empty"
    /\ display_state' =
          IF RecvKind(receive_updates) = "Ok"
          THEN consume_into(RecvValue(receive_updates), display_state)
          ELSE display_state
    /\ receive_updates' = RecvNext(receive_updates)
    /\ listener' = IF RecvKind(receive_updates) = "Lagged"
                   THEN [listener EXCEPT !.lags = @ + 1]
                   ELSE listener
    /\ UNCHANGED <<channel, conn, validVars, webhook, run>>

\* sp_incoming.next() yields Some(Err(_)): print it and go on.
ListenerAcceptErrorFatal ==
    /\ listener.pc = "select"
    /\ listener.accept_errors < run.accept_errors
    /\ listener' = [listener EXCEPT !.pc = "exited", !.accept_errors = @ + 1]
    /\ UNCHANGED <<display_state, channel, receive_updates, conn, webhook, run, validVars>>
ListenerAcceptError ==
    /\ listener.pc = "select"
    /\ listener.accept_errors < run.accept_errors
    /\ listener' = [listener EXCEPT !.accept_errors = @ + 1]
    /\ UNCHANGED <<display_state, channel, receive_updates, conn, webhook, run, validVars>>

(***************************************************************************)
(* The handler task of one connection.                                     *)
(***************************************************************************)
\* The task returns `result` before its loop: its DisplayMessage is dropped.
Returned(h, first, result) ==
    [h EXCEPT !.hello = first, !.pc = "Closed", !.result = result,
              !.display_state = DefaultDisplayMessage, !.seed = DefaultDisplayMessage]

\* The first read yielded Some(Err(_)) or None: return Err.
HelloFailed(h, first) == Returned(h, first, "Err")

\* Display hello: build the writer, subscribe, create the interval, enter the loop.
\* The first tick of a tokio interval is ready at once.
BecomeDisplayerReplays(h, first) ==
    [h EXCEPT !.hello = first, !.pc = "Streaming", !.subscribed = TRUE,
              !.receive_updates = 0, !.tick = TRUE]
BecomeDisplayerRefreshes(h, first) ==
    [h EXCEPT !.hello = first, !.pc = "Streaming", !.subscribed = TRUE,
              !.receive_updates = Len(channel), !.tick = TRUE,
              !.display_state = display_state]
BecomeDisplayerNoFirstTick(h, first) ==
    [h EXCEPT !.hello = first, !.pc = "Streaming", !.subscribed = TRUE,
              !.receive_updates = Len(channel), !.tick = FALSE]
BecomeDisplayer(h, first) ==
    [h EXCEPT !.hello = first, !.pc = "Streaming", !.subscribed = TRUE,
              !.receive_updates = Len(channel), !.tick = TRUE]

\* PersonIsUpdate hello: validate, send the mutation, return.
HandleUpdateFallsThrough(h, first) ==
    IF ~is_person_is_valid(first.msg.person_is)
    THEN Returned(h, first, "Err")
    ELSE [BecomeDisplayer(h, first) EXCEPT
                   !.published = IF SendOk THEN Append(@, first.msg) ELSE @]
HandleUpdate(h, first) ==
    IF ~is_person_is_valid(first.msg.person_is)
    THEN Returned(h, first, "Err")
    ELSE [Returned(h, first, IF SendOk THEN "Ok" ELSE "Err") EXCEPT
                   !.published = IF SendOk THEN Append(@, first.msg) ELSE @]

\* The handler's record after the first read yielded `first`.
AfterHelloAllStream(h, first) ==
    CASE first.kind \in {"Err", "Eof"} -> HelloFailed(h, first)
      [] OTHER -> BecomeDisplayer(h, first)
AfterHelloLenient(h, first) ==
    CASE first.kind = "PersonIsUpdate" -> HandleUpdate(h, first)
      [] OTHER -> BecomeDisplayer(h, first)
AfterHello(h, first) ==
    CASE first.kind \in {"Err", "Eof"} -> HelloFailed(h, first)
      [] first.kind = "PersonIsUpdate" -> HandleUpdate(h, first)
      [] OTHER -> BecomeDisplayer(h, first)

\* The mutations the handler sends on the channel after the first read yielded `first`.
SentAfterHelloTruncating(first) ==
    IF first.kind = "PersonIsUpdate" /\ SendOk
    THEN {first.msg}
    ELSE {}
SentAfterHello(first) ==
    IF first.kind = "PersonIsUpdate" /\ is_person_is_valid(first.msg.person_is) /\ SendOk
    THEN {first.msg}
    ELSE {}

\* jsonread.next().await completes; the code up to the next await runs.
ReadHello(c, first) ==
    /\ conn[c].pc = "AwaitingHello"
    /\ SentAfterHello(first) # {} => Len(channel) < run.pubs
    /\ conn' = Owing([conn EXCEPT ![c] = AfterHello(@, first)], SentAfterHello(first))
    /\ channel' = IF SentAfterHello(first) # {} THEN AfterSend(first.msg) ELSE channel
    /\ UNCHANGED <<display_state, receive_updates, validVars, listener, webhook, run>>

\* select!: interval.tick() wins.
DisplayerTickResets(c) ==
    /\ conn[c].pc = "Streaming"
    /\ conn[c].tick
    /\ Iterations < run.frames
    /\ conn' = [conn EXCEPT ![c] = [@ EXCEPT !.pc = "Sending", !.tick = FALSE,
                                             !.display_state = DefaultDisplayMessage,
                                             !.wakes = Append(@, [kind |-> "tick"])]]
    /\ UNCHANGED <<display_state, channel, receive_updates, validVars, listener, webhook, run>>
DisplayerTick(c) ==
    /\ conn[c].pc = "Streaming"
    /\ conn[c].tick
    /\ Iterations < run.frames
    /\ conn' = [conn EXCEPT ![c] = [@ EXCEPT !.pc = "Sending", !.tick = FALSE,
                                             !.wakes = Append(@, [kind |-> "tick"])]]
    /\ UNCHANGED <<display_state, channel, receive_updates, validVars, listener, webhook, run>>

\* select!: receive_updates.next() wins, with a mutation or a lag error.
DisplayerReceiveLagSkipsSend(c) ==
    /\ conn[c].pc = "Streaming"
    /\ RecvKind(conn[c].receive_updates) # "Empty"
    /\ Iterations < run.frames
    /\ conn' = [conn EXCEPT ![c] =
          IF RecvKind(conn[c].receive_updates) = "Ok"
          THEN [@ EXCEPT !.pc = "Sending",
                         !.display_state = consume_into(RecvValue(conn[c].receive_updates), @),
                         !.receive_updates = RecvNext(conn[c].receive_updates),
                         !.wakes = Append(@, [kind |-> "update",
                                              msg |-> RecvValue(conn[c].receive_updates)])]
          ELSE [@ EXCEPT !.receive_updates = RecvNext(conn[c].receive_updates),
                         !.wakes = Append(@, [kind |-> "lagged"])]]
    /\ UNCHANGED <<display_state, channel, receive_updates, validVars, listener, webhook, run>>
DisplayerReceiveLagFatal(c) ==
    /\ conn[c].pc = "Streaming"
    /\ RecvKind(conn[c].receive_updates) # "Empty"
    /\ Iterations < run.frames
    /\ conn' = [conn EXCEPT ![c] =
          IF RecvKind(conn[c].receive_updates) = "Ok"
          THEN [@ EXCEPT !.pc = "Sending",
                         !.display_state = consume_into(RecvValue(conn[c].receive_updates), @),
                         !.receive_updates = RecvNext(conn[c].receive_updates),
                         !.wakes = Append(@, [kind |-> "update",
                                              msg |-> RecvValue(conn[c].receive_updates)])]
          ELSE [@ EXCEPT !.pc = "Closed", !.result = "Err", !.subscribed = FALSE,
                         !.receive_updates = 0, !.tick = FALSE,
                         !.wakes = Append(@, [kind |-> "lagged"])]]
    /\ UNCHANGED <<display_state, channel, receive_updates, validVars, listener, webhook, run>>
DisplayerReceive(c) ==
    /\ conn[c].pc = "Streaming"
    /\ RecvKind(conn[c].receive_updates) # "Empty"
    /\ Iterations < run.frames
    /\ conn' = [conn EXCEPT ![c] =
          IF RecvKind(conn[c].receive_updates) = "Ok"
          THEN [@ EXCEPT !.pc = "Sending",
                         !.display_state = consume_into(RecvValue(conn[c].receive_updates), @),
                         !.receive_updates = RecvNext(conn[c].receive_updates),
                         !.wakes = Append(@, [kind |-> "update",
                                              msg |-> RecvValue(conn[c].receive_updates)])]
          ELSE [@ EXCEPT !.pc = "Sending",
                         !.receive_updates = RecvNext(conn[c].receive_updates),
                         !.wakes = Append(@, [kind |-> "lagged"])]]
    /\ UNCHANGED <<display_state, channel, receive_updates, validVars, listener, webhook, run>>

\* jsonwrite.send(display_state.clone()).await completes with Ok.
DisplayerSendSeed(c) ==
    /\ conn[c].pc = "Sending"
    /\ conn' = [conn EXCEPT ![c] = [@ EXCEPT !.pc = "Streaming",
                                             !.sent = Append(@, conn[c].seed),
                                             !.owed = {}]]
    /\ UNCHANGED <<display_state, channel, receive_updates, validVars, listener, webhook, run>>
DisplayerSend(c) ==
    /\ conn[c].pc = "Sending"
    /\ conn' = [conn EXCEPT ![c] = [@ EXCEPT !.pc = "Streaming",
                                             !.sent = Append(@, conn[c].display_state),
                                             !.owed = {}]]
    /\ UNCHANGED <<display_state, channel, receive_updates, validVars, listener, webhook, run>>

\* jsonwrite.send(...).await completes with Err: break Err(e).  The task ends and
\* its receiver and interval are dropped.
DisplayerSendFailContinues(c) ==
    /\ conn[c].pc = "Sending"
    /\ conn' = [conn EXCEPT ![c] = [@ EXCEPT !.pc = "Streaming"]]
    /\ UNCHANGED <<display_state, channel, receive_updates, validVars, listener, webhook, run>>
DisplayerSendFailClosesAll(c) ==
    /\ conn[c].pc = "Sending"
    /\ conn' = [d \in Conns |->
                  IF conn[d].pc \in {"Streaming", "Sending"}
                  THEN [conn[d] EXCEPT !.pc = "Closed", !.result = "Err",
                                       !.subscribed = FALSE, !.receive_updates = 0,
                                       !.tick = FALSE, !.owed = {}]
                  ELSE conn[d]]
    /\ UNCHANGED <<display_state, channel, receive_updates, validVars, listener, webhook, run>>
DisplayerSendFail(c) ==
    /\ conn[c].pc = "Sending"
    /\ conn' = [conn EXCEPT ![c] = [@ EXCEPT !.pc = "Closed", !.result = "Err",
                                             !.subscribed = FALSE, !.receive_updates = 0,
                                             !.tick = FALSE, !.owed = {}]]
    /\ UNCHANGED <<display_state, channel, receive_updates, validVars, listener, webhook, run>>

\* The 1200 s period of the handler's interval elapses.
HeartbeatElapse(c) ==
    /\ conn[c].pc \in {"Streaming", "Sending"}
    /\ ~conn[c].tick
    /\ Iterations < run.frames
    /\ conn' = [conn EXCEPT ![c] = [@ EXCEPT !.tick = TRUE]]
    /\ UNCHANGED <<display_state, channel, receive_updates, validVars, listener, webhook, run>>

\* The client of a displayer connection closes its socket.  The handler's loop
\* polls only its interval and its subscription and never the read half, so
\* nothing in the task wakes up.
PeerClosesEndsHandler(c) ==
    /\ conn[c].pc \in {"Streaming", "Sending"}
    /\ conn[c].peer_closed_at = -1
    /\ conn' = [conn EXCEPT ![c] = [@ EXCEPT !.pc = "Closed", !.result = "Err",
                                             !.subscribed = FALSE, !.receive_updates = 0,
                                             !.tick = FALSE, !.owed = {},
                                             !.peer_closed_at = Len(conn[c].wakes)]]
    /\ UNCHANGED <<display_state, channel, receive_updates, validVars, listener, webhook, run>>
PeerCloses(c) ==
    /\ conn[c].pc \in {"Streaming", "Sending"}
    /\ conn[c].peer_closed_at = -1
    /\ conn' = [conn EXCEPT ![c] = [@ EXCEPT !.peer_closed_at = Len(conn[c].wakes)]]
    /\ UNCHANGED <<display_state, channel, receive_updates, validVars, listener, webhook, run>>

(***************************************************************************)
(* The webhook (handle_twitter_webhook_post, inner).                       *)
(***************************************************************************)
\* chrono::Utc.timestamp(timestamp / 1000, 0): milliseconds to whole seconds
WebhookTimestamp(ms) == ms \div 1000

\* The event passes every check before the send.
WebhookAcceptsAnyLength(ev) ==
    ev.signature_ok /\ ev.sender_ok
WebhookAccepts(ev) ==
    ev.signature_ok /\ ev.sender_ok /\ is_person_is_valid(ev.text)

\* The mutation the webhook builds from an event.
WebhookMutation(ev) ==
    PersonIsUpdateHelloMessage(ev.text, WebhookTimestamp(ev.created_timestamp))

\* The result `rv` of inner: Ok, or the EarlyExit it returned.
WebhookResult(ev) ==
    CASE ~ev.signature_ok -> "Error"
      [] ~ev.sender_ok -> "Irrelevant"
      [] ~is_person_is_valid(ev.text) -> "Irrelevant"
      [] ~SendOk -> "Error"
      [] OTHER -> "Ok"

\* A post that waits until every receiver has room for one more mutation.
WebhookPostWaitsForRoom(ev) ==
    /\ WebhookAccepts(ev) => Len(channel) < run.pubs
    /\ WebhookAccepts(ev) =>
          /\ Len(channel) - receive_updates < Capacity
          /\ \A c \in Conns : conn[c].subscribed =>
                 Len(channel) - conn[c].receive_updates < Capacity
    /\ channel' = IF WebhookAccepts(ev) THEN AfterSend(WebhookMutation(ev)) ELSE channel
    /\ conn' = IF WebhookAccepts(ev) /\ SendOk
               THEN Owing(conn, {WebhookMutation(ev)})
               ELSE conn
    /\ webhook' = IF "webhook" \in run.record THEN [rv |-> WebhookResult(ev), ev |-> ev] ELSE webhook
    /\ UNCHANGED <<display_state, receive_updates, validVars, listener, run>>
WebhookPostWritesThrough(ev) ==
    /\ WebhookAccepts(ev) => Len(channel) < run.pubs
    /\ channel' = IF WebhookAccepts(ev) THEN AfterSend(WebhookMutation(ev)) ELSE channel
    /\ conn' = IF WebhookAccepts(ev) /\ SendOk
               THEN Owing(conn, {WebhookMutation(ev)})
               ELSE conn
    /\ display_state' = IF WebhookAccepts(ev)
                        THEN consume_into(WebhookMutation(ev), display_state)
                        ELSE display_state
    /\ webhook' = IF "webhook" \in run.record THEN [rv |-> WebhookResult(ev), ev |-> ev] ELSE webhook
    /\ UNCHANGED <<receive_updates, validVars, listener, run>>
WebhookPost(ev) ==
    /\ WebhookAccepts(ev) => Len(channel) < run.pubs
    /\ channel' = IF WebhookAccepts(ev) THEN AfterSend(WebhookMutation(ev)) ELSE channel
    /\ conn' = IF WebhookAccepts(ev) /\ SendOk
               THEN Owing(conn, {WebhookMutation(ev)})
               ELSE conn
    /\ webhook' = IF "webhook" \in run.record THEN [rv |-> WebhookResult(ev), ev |-> ev] ELSE webhook
    /\ UNCHANGED <<display_state, receive_updates, validVars, listener, run>>

(***************************************************************************)
(* The hub.                                                                *)
(***************************************************************************)
Next ==
    \/ \E c \in Conns : ListenerAccept(c)
    \/ ListenerReceive
    \/ \E c \in Conns : \E first \in FirstFrames : ReadHello(c, first)
    \/ \E c \in Conns : DisplayerTick(c)
    \/ \E c \in Conns : DisplayerReceive(c)
    \/ \E c \in Conns : DisplayerSend(c)
    \/ \E c \in Conns : DisplayerSendFail(c)
    \/ \E c \in Conns : HeartbeatElapse(c)
    \/ \E ev \in run.events : WebhookPost(ev)

Spec == Init /\ [][Next]_vars

(***************************************************************************)
(* The hub with exactly two connections, one beside the other, whatever    *)
(* NumConns is.                                                            *)
(***************************************************************************)
TwoConnInit ==
    /\ HubInit
    /\ run = Run(2, MaxPub, MaxFrames, 0, WebhookEvents, {})
    /\ status = <<>>
    /\ status_valid = "unchecked"
    /\ client = ClientStart
    /\ set_status = SetStatusStart
    /\ renderer = RendererStart

TwoConnSpec == TwoConnInit /\ [][Next]_vars

(***************************************************************************)
(* One connection and more mutations than the channel holds, so that the   *)
(* displayer's receiver can lag.  The listener loop only accepts here; its *)
(* own receiver is the subject of ListenerSpec.                            *)
(***************************************************************************)
SoloInit ==
    /\ HubInit
    /\ run = Run(1, SoloMaxPub, SoloMaxFrames, 0, BoundaryWebhookEvents, {})
    /\ status = <<>>
    /\ status_valid = "unchecked"
    /\ client = ClientStart
    /\ set_status = SetStatusStart
    /\ renderer = RendererStart

SoloNext ==
    \/ \E c \in Conns : ListenerAccept(c)
    \/ \E c \in Conns : \E first \in FirstFrames : ReadHello(c, first)
    \/ \E c \in Conns : DisplayerTick(c)
    \/ \E c \in Conns : DisplayerReceive(c)
    \/ \E c \in Conns : DisplayerSend(c)
    \/ \E c \in Conns : DisplayerSendFail(c)
    \/ \E c \in Conns : HeartbeatElapse(c)
    \/ \E ev \in run.events : WebhookPost(ev)

SoloSpec == SoloInit /\ [][SoloNext]_vars

(***************************************************************************)
(* The whole hub with one connection and one mutation more than Spec, so   *)
(* that two different mutations meet in one run.                           *)
(***************************************************************************)
PairInit ==
    /\ HubInit
    /\ run = Run(1, MaxPub + 1, MaxFrames, 0, BoundaryWebhookEvents, {})
    /\ status = <<>>
    /\ status_valid = "unchecked"
    /\ client = ClientStart
    /\ set_status = SetStatusStart
    /\ renderer = RendererStart

PairSpec == PairInit /\ [][Next]_vars

(***************************************************************************)
(* The listener loop and the webhook: accepts that succeed or fail, the     *)
(* listener's receives, and webhook posts with their results recorded.     *)
(* The handler tasks are left out: an accepted connection stays at its     *)
(* first read.                                                             *)
(***************************************************************************)
ListenerInit ==
    /\ HubInit
    /\ run = Run(1, ListenerMaxPub, 0, MaxAcceptErrors, BoundaryWebhookEvents, {"webhook"})
    /\ status = <<>>
    /\ status_valid = "unchecked"
    /\ client = ClientStart
    /\ set_status = SetStatusStart
    /\ renderer = RendererStart

ListenerNext ==
    \/ \E c \in Conns : ListenerAccept(c)
    \/ ListenerAcceptError
    \/ ListenerReceive
    \/ \E ev \in run.events : WebhookPost(ev)

ListenerSpec == ListenerInit /\ [][ListenerNext]_vars

\* The same without the webhook's history.  select! polls its ready branches in
\* a random order, so a receive that stays ready is eventually taken.
FairListenerInit ==
    /\ HubInit
    /\ run = Run(1, ListenerMaxPub, 0, MaxAcceptErrors, BoundaryWebhookEvents, {})
    /\ status = <<>>
    /\ status_valid = "unchecked"
    /\ client = ClientStart
    /\ set_status = SetStatusStart
    /\ renderer = RendererStart

FairListenerSpec ==
    FairListenerInit /\ [][ListenerNext]_vars /\ WF_vars(ListenerReceive)

(***************************************************************************)
(* The validation predicate on its own.                                    *)
(***************************************************************************)
ValidInit ==
    /\ HubInit
    /\ run = Run(NumConns, MaxPub, MaxFrames, 0, WebhookEvents, {"owed"})
    /\ status \in TestTexts
    /\ status_valid = "unchecked"
    /\ client = ClientStart
    /\ set_status = SetStatusStart
    /\ renderer = RendererStart

\* The timestamps Utc::now() can give the hello.
SetStatusTimes == {1, 2}

\* set_status_cli's first statement: is_person_is_valid(&opts.status); an invalid
\* status returns Err at once.
ValidateLenient ==
    /\ status_valid = "unchecked"
    /\ status_valid' = IF is_person_is_valid(status) THEN "valid" ELSE "invalid"
    /\ set_status' = [set_status EXCEPT !.pc = "setup"]
    /\ UNCHANGED <<status, client, renderer, hubVars>>
Validate ==
    /\ status_valid = "unchecked"
    /\ status_valid' = IF is_person_is_valid(status) THEN "valid" ELSE "invalid"
    /\ set_status' = IF is_person_is_valid(status)
                     THEN [set_status EXCEPT !.pc = "setup"]
                     ELSE [set_status EXCEPT !.pc = "done", !.rv = "Err"]
    /\ UNCHANGED <<status, client, renderer, hubVars>>

\* confy::load and Runtime::new return: on Ok the connect begins.
SetStatusSetup(ok) ==
    /\ set_status.pc = "setup"
    /\ set_status' = IF ok
                     THEN [set_status EXCEPT !.pc = "connecting"]
                     ELSE [set_status EXCEPT !.pc = "done", !.rv = "Err"]
    /\ UNCHANGED <<status, status_valid, client, renderer, hubVars>>

\* config.connect().await? returns: on Ok the hello is sent.
SetStatusConnect(ok) ==
    /\ set_status.pc = "connecting"
    /\ set_status' = IF ok
                     THEN [set_status EXCEPT !.pc = "sending", !.opened = @ + 1]
                     ELSE [set_status EXCEPT !.pc = "done", !.rv = "Err"]
    /\ UNCHANGED <<status, status_valid, client, renderer, hubVars>>

\* hub_comms.send(PersonIsUpdate(..)).await? returns; the command returns.
SetStatusSend(ok, now) ==
    /\ set_status.pc = "sending"
    /\ set_status' =
          IF ok
          THEN [set_status EXCEPT
                   !.pc = "done", !.rv = "Ok",
                   !.sent = Append(@, [kind |-> "PersonIsUpdate",
                                       msg |-> PersonIsUpdateHelloMessage(status, now)])]
          ELSE [set_status EXCEPT !.pc = "done", !.rv = "Err"]
    /\ UNCHANGED <<status, status_valid, client, renderer, hubVars>>

ValidNext ==
    \/ Validate
    \/ \E ok \in BOOLEAN : SetStatusSetup(ok)
    \/ \E ok \in BOOLEAN : SetStatusConnect(ok)
    \/ \E ok \in BOOLEAN : \E now \in SetStatusTimes : SetStatusSend(ok, now)

ValidSpec == ValidInit /\ [][ValidNext]_vars

(***************************************************************************)
(* The renderer thread and the queue between main_cli and it.              *)
(***************************************************************************)
RenderInit ==
    /\ HubInit
    /\ run = Run(NumConns, MaxPub, MaxFrames, 0, WebhookEvents, {"owed"})
    /\ status = <<>>
    /\ status_valid = "unchecked"
    /\ client = ClientStart
    /\ set_status = SetStatusStart
    /\ renderer = RendererStart

\* main_cli: sender.send(display_data.clone()).  The send fails, and the failure
\* is only printed, when the renderer thread has ended.
RendererSend ==
    /\ renderer.sent < MaxItems
    /\ renderer' = [renderer EXCEPT
                       !.sent = @ + 1,
                       !.queue = IF renderer.pc = "exited" THEN @
                                 ELSE Append(@, renderer.sent + 1)]
    /\ UNCHANGED <<status, status_valid, client, set_status, hubVars>>

\* receiver.recv() returns the oldest queued item; the drain begins.
RendererRecvNoDrain ==
    /\ renderer.pc = "recv"
    /\ renderer.queue # <<>>
    /\ renderer' = [renderer EXCEPT !.pc = "render", !.dd = Head(renderer.queue),
                                    !.queue = Tail(@)]
    /\ UNCHANGED <<status, status_valid, client, set_status, hubVars>>
RendererRecv ==
    /\ renderer.pc = "recv"
    /\ renderer.queue # <<>>
    /\ renderer' = [renderer EXCEPT !.pc = "drain", !.dd = Head(renderer.queue),
                                    !.queue = Tail(@)]
    /\ UNCHANGED <<status, status_valid, client, set_status, hubVars>>

\* receiver.try_recv(): Ok(new_dd) replaces dd; Err (the queue is empty) ends the
\* drain.
RendererTryRecv ==
    /\ renderer.pc = "drain"
    /\ renderer' = IF renderer.queue # <<>>
                   THEN [renderer EXCEPT !.dd = Head(renderer.queue), !.queue = Tail(@)]
                   ELSE [renderer EXCEPT !.pc = "render"]
    /\ UNCHANGED <<status, status_valid, client, set_status, hubVars>>

\* update_local, the drawing and show_buffer: on Ok dd is on the display and the
\* loop starts over; an error ends the thread and drops the receiver.
RendererRender(ok) ==
    /\ renderer.pc = "render"
    /\ renderer' = IF ok
                   THEN [renderer EXCEPT !.pc = "recv",
                                         !.rendered = Append(@, renderer.dd)]
                   ELSE [renderer EXCEPT !.pc = "exited", !.queue = <<>>]
    /\ UNCHANGED <<status, status_valid, client, set_status, hubVars>>

RenderNext ==
    \/ RendererSend
    \/ RendererRecv
    \/ RendererTryRecv
    \/ \E ok \in BOOLEAN : RendererRender(ok)

\* The renderer is a thread of its own: it runs whenever it can, and a rendering
\* that has begun ends, with Ok or with an error.
RenderSpec ==
    /\ RenderInit
    /\ [][RenderNext]_vars
    /\ WF_vars(RendererRecv)
    /\ WF_vars(RendererTryRecv)
    /\ WF_vars(\E ok \in BOOLEAN : RendererRender(ok))

(***************************************************************************)
(* The displayer client's main loop (main_cli) and its ServerConnection.   *)
(***************************************************************************)
ClientInit ==
    /\ HubInit
    /\ run = Run(NumConns, MaxPub, MaxFrames, 0, WebhookEvents, {"owed"})
    /\ status = <<>>
    /\ status_valid = "unchecked"
    /\ client = ClientStart
    /\ set_status = SetStatusStart
    /\ renderer = RendererStart

\* The housekeeping after the select: a failed connection whose last hub event is
\* more than hub_retry_duration old is reset to Initializing.
HousekeepingAtOnce(cl) ==
    IF cl.connection = "Failed"
    THEN [cl EXCEPT !.connection = "Initializing"]
    ELSE cl
Housekeeping(cl) ==
    IF cl.connection = "Failed" /\ cl.now - cl.last_hub_update > RetryMillis
    THEN [cl EXCEPT !.connection = "Initializing"]
    ELSE cl

\* The select's first branch completes with Err: the connection is Failed.
HubFailure(cl) ==
    Housekeeping([cl EXCEPT !.connection = "Failed", !.pc = "select",
                            !.last_hub_update = cl.now, !.failed_at = cl.now,
                            !.reports = @ + 1])

\* get_next_message is polled in Initializing: config.connect() begins.
ClientConnectStart ==
    /\ client.pc = "select"
    /\ client.connection = "Initializing"
    /\ client' = [client EXCEPT !.pc = "connecting", !.attempts = @ + 1]
    /\ UNCHANGED <<status, status_valid, set_status, renderer, hubVars>>

\* config.connect() returns Err.
ClientConnectFails ==
    /\ client.pc = "connecting"
    /\ client' = HubFailure(client)
    /\ UNCHANGED <<status, status_valid, set_status, renderer, hubVars>>

\* config.connect() returns Ok: the hello is being sent.
ClientOpensBeforeHello ==
    /\ client.pc = "connecting"
    /\ client' = [client EXCEPT !.pc = "select", !.connection = "Open",
                                !.opened = @ + 1, !.wire = <<>>, !.has_read = FALSE]
    /\ UNCHANGED <<status, status_valid, set_status, renderer, hubVars>>
ClientConnected ==
    /\ client.pc = "connecting"
    /\ client' = [client EXCEPT !.pc = "greeting", !.opened = @ + 1,
                                !.wire = <<>>, !.has_read = FALSE]
    /\ UNCHANGED <<status, status_valid, set_status, renderer, hubVars>>

\* The send of the Display hello returns Err.
ClientHelloFails ==
    /\ client.pc = "greeting"
    /\ client' = HubFailure([client EXCEPT !.hello_errors = @ + 1])
    /\ UNCHANGED <<status, status_valid, set_status, renderer, hubVars>>

\* The send of the hello returns Ok: the connection is Open and try_next is awaited.
ClientHelloSent ==
    /\ client.pc = "greeting"
    /\ client' = [client EXCEPT !.pc = "select", !.connection = "Open",
                                !.hellos = @ + 1, !.wire = Append(@, "Display")]
    /\ UNCHANGED <<status, status_valid, set_status, renderer, hubVars>>

\* try_next yields Ok(Some(m)).
ClientReceives ==
    /\ client.pc = "select"
    /\ client.connection = "Open"
    /\ client' = Housekeeping([client EXCEPT !.last_hub_update = client.now,
                                             !.has_read = TRUE])
    /\ UNCHANGED <<status, status_valid, set_status, renderer, hubVars>>

\* try_next yields Ok(None) or Err.
ClientHubLostKeepsFailing ==
    /\ client.pc = "select"
    /\ client.connection \in {"Open", "Failed"}
    /\ client' = HubFailure([client EXCEPT !.has_read = TRUE])
    /\ UNCHANGED <<status, status_valid, set_status, renderer, hubVars>>
ClientHubLost ==
    /\ client.pc = "select"
    /\ client.connection = "Open"
    /\ client' = HubFailure([client EXCEPT !.has_read = TRUE])
    /\ UNCHANGED <<status, status_valid, set_status, renderer, hubVars>>

\* wakeup_interval.tick() wins the select; the get_next_message future of this
\* iteration is dropped, and with it a connect or hello send in progress.
ClientTickCountsAsHubEvent ==
    /\ client.now >= client.next_tick
    /\ client' = Housekeeping([client EXCEPT !.pc = "select",
                                             !.next_tick = @ + WakeupMillis,
                                             !.last_hub_update = client.now,
                                             !.cut = IF client.pc = "greeting"
                                                     THEN @ + 1 ELSE @])
    /\ UNCHANGED <<status, status_valid, set_status, renderer, hubVars>>
ClientTick ==
    /\ client.now >= client.next_tick
    /\ client' = Housekeeping([client EXCEPT !.pc = "select",
                                             !.next_tick = @ + WakeupMillis,
                                             !.cut = IF client.pc = "greeting"
                                                     THEN @ + 1 ELSE @])
    /\ UNCHANGED <<status, status_valid, set_status, renderer, hubVars>>

\* Time passes.
ClientTimePasses ==
    /\ client.now < MaxClockSteps * ClockStep
    /\ client' = [client EXCEPT !.now = @ + ClockStep]
    /\ UNCHANGED <<status, status_valid, set_status, renderer, hubVars>>

ClientNext ==
    \/ ClientConnectStart
    \/ ClientConnectFails
    \/ ClientConnected
    \/ ClientHelloFails
    \/ ClientHelloSent
    \/ ClientReceives
    \/ ClientHubLost
    \/ ClientTick
    \/ ClientTimePasses

ClientSpec == ClientInit /\ [][ClientNext]_vars

\* Time passes, the wake-up interval fires when it is due, and every iteration of
\* the main loop polls get_next_message, which begins a connect when the
\* connection is Initializing.
FairClientSpec ==
    /\ ClientInit
    /\ [][ClientNext]_vars
    /\ WF_vars(ClientTimePasses)
    /\ WF_vars(ClientTick)
    /\ WF_vars(ClientConnectStart)

\* The last time within the run at which the wake-up interval is due.
Horizon == ((MaxClockSteps * ClockStep) \div WakeupMillis) * WakeupMillis

(***************************************************************************)
(* Vocabulary of the properties.                                           *)
(***************************************************************************)
\* The handler of c is in its displayer loop.
InLoop(c) == conn[c].pc \in {"Streaming", "Sending"}

\* The most recently published value, as a DisplayMessage.
Current == IF channel = <<>> THEN DefaultDisplayMessage ELSE AsDisplay(channel[Len(channel)])

\* This step writes a frame on connection c.
FrameSent(c) == Len(conn'[c].sent) = Len(conn[c].sent) + 1
NewFrame(c) == conn'[c].sent[Len(conn'[c].sent)]

\* This step completes the write of connection c without a frame going out.
WriteFails(c) == conn[c].pc = "Sending" /\ conn'[c].pc # "Sending" /\ ~FrameSent(c)

\* This step begins a loop iteration of c; Woken(c) is what woke it.
Wakes(c) == Len(conn'[c].wakes) = Len(conn[c].wakes) + 1
Woken(c) == conn'[c].wakes[Len(conn'[c].wakes)]

\* What woke the last loop iteration c began.
LastWake(c) == conn[c].wakes[Len(conn[c].wakes)]

\* The mutations received by the iterations in `wakes` since the last lag, in
\* the order received.
RECURSIVE LagFreeUpdates(_)
LagFreeUpdates(wakes) ==
    IF wakes = <<>> THEN <<>>
    ELSE LET last == wakes[Len(wakes)]
             front == SubSeq(wakes, 1, Len(wakes) - 1)
         IN  CASE last.kind = "lagged" -> <<>>
               [] last.kind = "update" -> Append(LagFreeUpdates(front), last.msg)
               [] OTHER -> LagFreeUpdates(front)

\* No iteration in `wakes` was woken by a lag.
NeverLagged(wakes) == \A i \in 1..Len(wakes) : wakes[i].kind # "lagged"

\* How many of the first i iterations in `wakes` received a mutation.
UpdatesIn(wakes, i) == Cardinality({j \in 1..i : wakes[j].kind = "update"})

\* This step ends the handler of c with an error.
FailsIn(c) == conn[c].pc # "Closed" /\ conn'[c].pc = "Closed" /\ conn'[c].result = "Err"

(***************************************************************************)
(* Propagation of a mutation to the displayers.                            *)
(***************************************************************************)
\* C1, as stated: when a mutation M is sent on the channel, the next frame written
\* on every connection subscribed at that moment is M.  `owed` holds the mutations
\* sent since the connection's last frame, so each frame must equal all of them.
C1_NextFrameCarriesMutation ==
    [][\A c \in Conns :
          FrameSent(c) => \A m \in conn[c].owed : NewFrame(c) = AsDisplay(m)]_vars

\* C1, amended: the frame written by the loop iteration that received mutation M
\* from the subscription is exactly M's person_is and timestamp, and M is one of
\* the mutations sent on the channel after the handler subscribed.
C1_ReceivingIterationCarriesMutation ==
    \A c \in Conns : \A i \in 1..Len(conn[c].sent) :
        conn[c].wakes[i].kind = "update" =>
            /\ conn[c].sent[i] = AsDisplay(conn[c].wakes[i].msg)
            /\ \E k \in 1..Len(channel) : channel[k] = conn[c].wakes[i].msg

C1_Witness ==
    \E c \in Conns :
        /\ Len(conn[c].sent) = 2
        /\ conn[c].wakes[1].kind = "tick"
        /\ conn[c].wakes[2].kind = "update"
        /\ conn[c].sent[2] # conn[c].sent[1]

\* C2: once publishing has stopped, a displayer in its loop that has nothing left
\* to receive and has written a frame since holds, and last wrote, the last
\* published mutation, which is also what the listener's copy then holds.
C2_EventualConsistency ==
    \A c \in Conns :
        ( /\ Len(channel) = MaxPub
          /\ conn[c].pc = "Streaming"
          /\ RecvKind(conn[c].receive_updates) = "Empty"
          /\ RecvKind(receive_updates) = "Empty"
          /\ conn[c].sent # <<>> )
        => /\ display_state = Current
           /\ conn[c].display_state = Current
           /\ conn[c].sent[Len(conn[c].sent)] = Current

\* C8: right after a displayer handler subscribed (no loop iteration yet, nothing
\* sent on the channel since), its DisplayMessage is the most recently published
\* mutation, or the default when there is none.
C8_SeedCurrentAtSubscribe ==
    \A c \in Conns :
        ( /\ conn[c].pc = "Streaming"
          /\ conn[c].wakes = <<>>
          /\ conn[c].receive_updates = Len(channel) )
        => conn[c].display_state = Current

(***************************************************************************)
(* The hello.                                                              *)
(***************************************************************************)
\* C3: a connection whose first read failed to decode, failed, or hit the end of
\* the stream ended with Err, published nothing, holds no subscription and was
\* never written to.
C3_HelloGating ==
    \A c \in Conns :
        conn[c].hello.kind \in {"Err", "Eof"} =>
            /\ conn[c].pc = "Closed"
            /\ conn[c].result = "Err"
            /\ conn[c].published = <<>>
            /\ ~conn[c].subscribed
            /\ conn[c].wakes = <<>>
            /\ conn[c].sent = <<>>

C3_Witness ==
    \E c, d \in Conns :
        /\ conn[c].hello.kind = "Err"
        /\ conn[d].hello.kind = "Eof"
        /\ channel # <<>>

\* C4: the step that reads a PersonIsUpdate hello with an invalid person_is sends
\* nothing on the channel, changes neither the listener's DisplayMessage nor any
\* handler's, and ends the handler with Err.
C4_InvalidUpdateRejected ==
    [][\A c \in Conns :
          ( /\ conn[c].pc = "AwaitingHello"
            /\ conn'[c].hello.kind = "PersonIsUpdate"
            /\ StrLen(conn'[c].hello.msg.person_is) >= 23 )
          => /\ channel' = channel
             /\ display_state' = display_state
             /\ \A d \in Conns \ {c} : conn'[d] = conn[d]
             /\ conn'[c].pc = "Closed"
             /\ conn'[c].result = "Err"
             /\ conn'[c].published = <<>>
             /\ conn'[c].sent = <<>>]_vars

C4_Witness ==
    \E c, d \in Conns :
        /\ conn[c].hello.kind = "PersonIsUpdate"
        /\ conn[c].hello.msg.person_is = Text23
        /\ conn[c].pc = "Closed"
        /\ conn[d].pc = "Streaming"
        /\ conn[d].sent # <<>>

\* C5: the step that reads a valid PersonIsUpdate hello appends exactly that
\* hello's mutation to the channel and ends the handler with Ok; the handler never
\* subscribed, began no loop iteration and wrote no frame.
C5_OneShotUpdater ==
    [][\A c \in Conns :
          ( /\ conn[c].pc = "AwaitingHello"
            /\ conn'[c].hello.kind = "PersonIsUpdate"
            /\ StrLen(conn'[c].hello.msg.person_is) < 23 )
          => /\ channel' = Append(channel, conn'[c].hello.msg)
             /\ conn'[c].published = <<conn'[c].hello.msg>>
             /\ conn'[c].pc = "Closed"
             /\ conn'[c].result = "Ok"
             /\ ~conn'[c].subscribed
             /\ conn'[c].wakes = <<>>
             /\ conn'[c].sent = <<>>]_vars

\* An updater's mutation, sent once, reached a subscribed displayer.
C5_Witness ==
    \E c, d \in Conns :
        /\ conn[c].hello.kind = "PersonIsUpdate"
        /\ conn[c].published = <<conn[c].hello.msg>>
        /\ conn[c].pc = "Closed"
        /\ conn[c].result = "Ok"
        /\ conn[d].sent # <<>>
        /\ conn[d].sent[Len(conn[d].sent)] = AsDisplay(conn[c].hello.msg)

(***************************************************************************)
(* Validation.                                                             *)
(***************************************************************************)
\* C6: is_person_is_valid answers true for every text of 22 bytes or fewer and
\* false for every text of 23 bytes or more.
C6_ValidIffUnder23Bytes ==
    status_valid # "unchecked" =>
        /\ StrLen(status) <= 22 => status_valid = "valid"
        /\ StrLen(status) >= 23 => status_valid = "invalid"

\* A text of 23 bytes in 9 characters is found invalid.
C6_Witness ==
    /\ status_valid = "invalid"
    /\ StrLen(status) = 23
    /\ Len(status) = 9

(***************************************************************************)
(* The heartbeat.                                                          *)
(***************************************************************************)
\* C7: a handler that entered its loop and has begun no iteration has a tick ready,
\* so its first frame needs neither a mutation nor an elapsed period; and a first
\* frame written by an iteration that received no mutation is the snapshot passed
\* to the handler at accept.
C7_FirstFrameAtOnce ==
    \A c \in Conns :
        /\ (conn[c].pc = "Streaming" /\ conn[c].wakes = <<>>) => conn[c].tick
        /\ (conn[c].sent # <<>> /\ conn[c].wakes[1].kind # "update")
              => conn[c].sent[1] = conn[c].seed

\* A first frame equal to a seed that is not the default, written before any
\* heartbeat period elapsed.
C7_Witness ==
    \E c \in Conns :
        /\ Len(conn[c].sent) = 1
        /\ conn[c].wakes[1].kind = "tick"
        /\ conn[c].sent[1] = conn[c].seed
        /\ conn[c].seed # DefaultDisplayMessage

C10_Isolation ==
    [][\A a \in Conns :
          FailsIn(a) =>
             /\ channel' = channel
             /\ display_state' = display_state
             /\ receive_updates' = receive_updates
             /\ \A b \in Conns \ {a} : conn'[b] = conn[b]]_vars

\* A failed write on one connection while the other is still in its loop.
C10_Witness ==
    \E a, b \in Conns :
        /\ conn[a].pc = "Closed"
        /\ conn[a].result = "Err"
        /\ conn[a].wakes # <<>>
        /\ InLoop(b)
        /\ conn[b].sent # <<>>

(***************************************************************************)
(* Failures inside the displayer loop.                                     *)
(***************************************************************************)
\* C11: the step in which a write on connection c fails ends c's handler with Err
\* and drops its subscription, adds no frame, and leaves the channel, the
\* listener's DisplayMessage and receiver and every other handler as they were;
\* and an ended handler never changes again: no frame, no mutation applied.
C11_WriteFailureEndsHandler ==
    [][\A c \in Conns :
          /\ WriteFails(c) =>
                /\ conn'[c].pc = "Closed"
                /\ conn'[c].result = "Err"
                /\ ~conn'[c].subscribed
                /\ conn'[c].sent = conn[c].sent
                /\ conn'[c].display_state = conn[c].display_state
                /\ \A d \in Conns \ {c} : conn'[d] = conn[d]
                /\ channel' = channel
                /\ display_state' = display_state
                /\ receive_updates' = receive_updates
          /\ conn[c].pc = "Closed" => conn'[c] = conn[c]]_vars

\* A second write failed after a first frame went out; the mutation published
\* since reached the listener's copy and not the ended handler.
C11_Witness ==
    \E c, d \in Conns :
        /\ conn[c].pc = "Closed"
        /\ conn[c].result = "Err"
        /\ Len(conn[c].sent) = 1
        /\ Len(conn[c].wakes) = 2
        /\ channel # <<>>
        /\ display_state = Current
        /\ conn[c].display_state # Current
        /\ conn[d].pc = "Streaming"

\* C12: the step in which a displayer's subscription reports lag leaves the
\* handler running and subscribed with its DisplayMessage unchanged, and moves it
\* on to the write; that write sends the unchanged DisplayMessage and returns to
\* the select; and the receive that follows a lag applies the mutation at the
\* receiver's position and advances by one, unless the handler has meanwhile
\* fallen more than 4 behind again, when it reports another lag.
C12_LagIsNotFatal ==
    [][\A c \in Conns :
          /\ (Wakes(c) /\ Woken(c).kind = "lagged") =>
                /\ conn'[c].pc = "Sending"
                /\ conn'[c].result = "running"
                /\ conn'[c].subscribed
                /\ conn'[c].display_state = conn[c].display_state
          /\ (conn[c].pc = "Sending" /\ LastWake(c).kind = "lagged" /\ FrameSent(c)) =>
                /\ NewFrame(c) = conn[c].display_state
                /\ conn'[c].pc = "Streaming"
                /\ conn'[c].subscribed
          /\ ( /\ conn[c].pc = "Streaming"
               /\ conn[c].wakes # <<>>
               /\ LastWake(c).kind = "lagged"
               /\ Wakes(c)
               /\ Woken(c).kind # "tick" ) =>
                IF Len(channel) - conn[c].receive_updates > 4
                THEN Woken(c).kind = "lagged"
                ELSE /\ Woken(c) = [kind |-> "update",
                                    msg |-> channel[conn[c].receive_updates + 1]]
                     /\ conn'[c].display_state =
                           AsDisplay(channel[conn[c].receive_updates + 1])
                     /\ conn'[c].receive_updates = conn[c].receive_updates + 1]_vars

\* A frame, then a lag whose frame repeats it, then a mutation that changes it.
C12_Witness ==
    \E c \in Conns :
        /\ Len(conn[c].sent) = 3
        /\ conn[c].wakes[2].kind = "lagged"
        /\ conn[c].wakes[3].kind = "update"
        /\ conn[c].sent[2] = conn[c].sent[1]
        /\ conn[c].sent[3] = AsDisplay(conn[c].wakes[3].msg)
        /\ conn[c].sent[3] # conn[c].sent[2]

(***************************************************************************)
(* The mutation channel.                                                   *)
(***************************************************************************)
\* What a subscribed handler has received since its last lag is the run of the
\* channel that ends at its receiver's position: every mutation of that run, once,
\* in publish order.
InPublishOrder(c) ==
    LET u == LagFreeUpdates(conn[c].wakes)
        r == conn[c].receive_updates
    IN  conn[c].subscribed =>
           /\ r <= Len(channel)
           /\ Len(u) <= r
           /\ u = SubSeq(channel, r - Len(u) + 1, r)

\* C13: a handler subscribes at the end of the channel, so every mutation sent
\* from then on is ahead of its receiver; the receiver never moves back, and moves
\* by more than one only in an iteration woken by a lag; and what the handler has
\* received since its last lag is, in publish order and without a gap, the run of
\* the channel ending at its receiver.
C13_PublishOrder ==
    [][\A c \in Conns :
          /\ (~conn[c].subscribed /\ conn'[c].subscribed) =>
                conn'[c].receive_updates = Len(channel')
          /\ (conn[c].subscribed /\ conn'[c].subscribed) =>
                /\ conn'[c].receive_updates >= conn[c].receive_updates
                /\ conn'[c].receive_updates > conn[c].receive_updates + 1 =>
                      (Wakes(c) /\ Woken(c).kind = "lagged")
          /\ InPublishOrder(c)']_vars

\* Three mutations received in the order published, the second differing from
\* the first, while the handler is two behind.
C13_Witness ==
    \E c \in Conns :
        /\ conn[c].subscribed
        /\ Len(conn[c].wakes) = 3
        /\ \A i \in 1..3 : conn[c].wakes[i].kind = "update"
        /\ conn[c].wakes[1].msg # conn[c].wakes[2].msg
        /\ channel[1] # channel[2]
        /\ conn[c].receive_updates = 3
        /\ Len(channel) = 5

\* C14: a receive of the listener's subscription that finds it more than 4
\* mutations behind reports a lag, applies nothing and leaves the receiver 4
\* behind; a receive that finds it 4 or fewer behind reports no lag and applies
\* the mutation at the receiver's position; the receiver moves, and a lag is
\* reported, in no other way.
C14_LagBeyondFour ==
    [][(receive_updates' # receive_updates \/ listener'.lags # listener.lags) =>
          IF Len(channel) - receive_updates > 4
          THEN /\ listener'.lags = listener.lags + 1
               /\ display_state' = display_state
               /\ receive_updates' = Len(channel) - 4
          ELSE /\ listener'.lags = listener.lags
               /\ display_state' = AsDisplay(channel[receive_updates + 1])
               /\ receive_updates' = receive_updates + 1]_vars

\* Five mutations were sent before the listener received: one lag, then the four
\* retained mutations one by one.
C14_Witness ==
    /\ Len(channel) = 5
    /\ listener.lags = 1
    /\ receive_updates = 5
    /\ display_state = AsDisplay(channel[5])
    /\ channel[4] # channel[5]

(***************************************************************************)
(* The listener loop.                                                      *)
(***************************************************************************)
\* C15: a receive of the listener that reports no lag applies the mutation at the
\* receiver's position; a connection is accepted with the listener's DisplayMessage
\* of that moment as its seed; a listener with nothing left to receive holds the
\* last published mutation; and, the select being fair to the receive, the
\* listener's receiver eventually passes every mutation sent.
C15_ListenerApplies ==
    /\ [][(receive_updates' # receive_updates /\ listener'.lags = listener.lags) =>
             /\ receive_updates' = receive_updates + 1
             /\ display_state' = AsDisplay(channel[receive_updates + 1])]_vars
    /\ [][\A c \in Conns :
             (conn[c].pc = "NotConnected" /\ conn'[c].pc # "NotConnected") =>
                 conn'[c].seed = display_state]_vars
    /\ [](receive_updates = Len(channel) => display_state = Current)
    /\ \A k \in 1..ListenerMaxPub : (Len(channel) >= k) ~> (receive_updates >= k)

\* After a failed accept, a connection accepted with a seed equal to the second
\* of two different mutations.
C15_Witness ==
    /\ listener.accept_errors >= 1
    /\ Len(channel) = 2
    /\ channel[1] # channel[2]
    /\ receive_updates = 2
    /\ conn[1].pc = "AwaitingHello"
    /\ conn[1].seed = AsDisplay(channel[2])

\* C16: whatever has happened (failed accepts, lags of its own subscription), the
\* listener is at its select: the next connection of the run can be accepted, and
\* a receiver with mutations ahead of it can receive.
C16_ListenerNeverExits ==
    /\ listener.pc = "select"
    /\ \A c \in Conns :
          ( /\ c <= run.conns
            /\ conn[c].pc = "NotConnected"
            /\ \A d \in Conns : d < c => conn[d].pc # "NotConnected" )
          => ENABLED ListenerAccept(c)
    /\ receive_updates < Len(channel) => ENABLED ListenerReceive

\* After a failed accept and a lag, the listener applied the mutations that
\* followed and accepted a connection with the last of them as its seed.
C16_Witness ==
    /\ listener.accept_errors >= 1
    /\ listener.lags >= 1
    /\ receive_updates = Len(channel)
    /\ display_state = Current
    /\ conn[1].pc = "AwaitingHello"
    /\ conn[1].seed = Current
    /\ conn[1].seed # AsDisplay(channel[Len(channel) - 1])

(***************************************************************************)
(* The DisplayMessage.                                                     *)
(***************************************************************************)
\* The default, and the text and timestamp of each mutation sent so far.
Accepted ==
    {DefaultDisplayMessage} \cup {AsDisplay(channel[k]) : k \in 1..Len(channel)}

\* C17: the listener's DisplayMessage, every handler's DisplayMessage and seed, and
\* every frame written are each the default or the text and timestamp of one
\* mutation sent on the channel.
C17_NeverMixed ==
    /\ display_state \in Accepted
    /\ \A c \in Conns :
          /\ conn[c].display_state \in Accepted
          /\ conn[c].seed \in Accepted
          /\ \A i \in 1..Len(conn[c].sent) : conn[c].sent[i] \in Accepted

\* Two mutations differing in text and in timestamp went, one after the other,
\* through the listener and through a displayer's two frames.
C17_Witness ==
    \E c \in Conns :
        /\ Len(channel) = 2
        /\ channel[1].person_is # channel[2].person_is
        /\ channel[1].timestamp # channel[2].timestamp
        /\ display_state = AsDisplay(channel[2])
        /\ conn[c].sent = <<AsDisplay(channel[1]), AsDisplay(channel[2])>>

\* C29: a listener that never lagged and has received k mutations holds exactly
\* the k-th mutation sent; a handler in its loop that has received a mutation
\* holds exactly the last one it received; neither depends on the timestamps.
C29_LastArrivalWins ==
    /\ (listener.lags = 0 /\ receive_updates >= 1) =>
          display_state = AsDisplay(channel[receive_updates])
    /\ \A c \in Conns : \A i \in 1..Len(conn[c].wakes) :
          ( /\ InLoop(c)
            /\ conn[c].wakes[i].kind = "update"
            /\ \A j \in (i + 1)..Len(conn[c].wakes) : conn[c].wakes[j].kind # "update" )
          => conn[c].display_state = AsDisplay(conn[c].wakes[i].msg)

\* The second mutation carries an older timestamp than the first; the listener
\* and a displayer applied both and hold the second.
C29_Witness ==
    \E c \in Conns :
        /\ Len(channel) = 2
        /\ channel[2].timestamp < channel[1].timestamp
        /\ receive_updates = 2
        /\ display_state = AsDisplay(channel[2])
        /\ conn[c].wakes = <<[kind |-> "update", msg |-> channel[1]],
                             [kind |-> "update", msg |-> channel[2]]>>
        /\ conn[c].display_state = AsDisplay(channel[2])

\* C30: every text on the channel is at most 22 bytes long, and the text of the
\* listener's DisplayMessage, of every handler's DisplayMessage and of every frame
\* written is "whereabouts unknown" or one of the texts on the channel.
C30_TextsAreValid ==
    LET texts == {WhereaboutsUnknown} \cup {channel[k].person_is : k \in 1..Len(channel)}
    IN  /\ \A t \in texts : StrLen(t) <= 22
        /\ display_state.person_is \in texts
        /\ \A c \in Conns :
              /\ conn[c].display_state.person_is \in texts
              /\ \A i \in 1..Len(conn[c].sent) : conn[c].sent[i].person_is \in texts

\* A text of exactly 22 bytes sent by an updater's hello reached the listener's
\* DisplayMessage and a displayer's frame.
C30_Witness ==
    \E c, d \in Conns :
        /\ conn[c].published # <<>>
        /\ conn[c].published[1].person_is = Text22
        /\ display_state.person_is = Text22
        /\ conn[d].sent # <<>>
        /\ conn[d].sent[Len(conn[d].sent)].person_is = Text22

(***************************************************************************)
(* The webhook.                                                            *)
(***************************************************************************)
\* C18: a step that appends to the channel is the webhook handling an event whose
\* signature and sender match and whose text passes is_person_is_valid, and it
\* appends exactly the mutation with that text and changes nothing else; handling
\* an event whose text fails is_person_is_valid changes nothing; handling an
\* event that passes all three appends its mutation.
C18_WebhookValidates ==
    [][/\ channel' # channel =>
             /\ webhook'.rv = "Ok"
             /\ webhook'.ev.signature_ok
             /\ webhook'.ev.sender_ok
             /\ is_person_is_valid(webhook'.ev.text)
             /\ channel' = Append(channel,
                                  [person_is |-> webhook'.ev.text,
                                   timestamp |-> webhook'.ev.created_timestamp \div 1000])
             /\ UNCHANGED <<display_state, receive_updates, conn, listener>>
       /\ (webhook' # webhook /\ ~is_person_is_valid(webhook'.ev.text)) =>
             /\ webhook'.rv # "Ok"
             /\ UNCHANGED <<channel, display_state, receive_updates, conn, listener>>
       /\ ( /\ webhook' # webhook
            /\ webhook'.ev.signature_ok
            /\ webhook'.ev.sender_ok
            /\ is_person_is_valid(webhook'.ev.text) ) =>
             /\ webhook'.rv = "Ok"
             /\ Len(channel') = Len(channel) + 1
             /\ channel'[Len(channel')].person_is = webhook'.ev.text]_vars

\* A text of 22 bytes was published by the webhook, and one of 23 bytes posted
\* after it was turned away.
C18_Witness ==
    /\ webhook.rv = "Irrelevant"
    /\ webhook.ev.text = Text23
    /\ webhook.ev.signature_ok
    /\ webhook.ev.sender_ok
    /\ channel = <<[person_is |-> Text22, timestamp |-> 1]>>

(***************************************************************************)
(* The frames of one connection.                                           *)
(***************************************************************************)
\* C21: for a subscribed handler that never lagged and subscribed at position s
\* of the channel, the seed is the default or a mutation at a position up to s,
\* and the i-th frame is the seed while no mutation was received and else the
\* mutation at position s + u, u being the number of mutations received in the
\* first i iterations: the position a frame carries never decreases.
C21_FramesInOrder ==
    \A c \in Conns :
        (conn[c].subscribed /\ NeverLagged(conn[c].wakes)) =>
            LET s == conn[c].receive_updates - UpdatesIn(conn[c].wakes, Len(conn[c].wakes))
            IN  /\ s >= 0
                /\ conn[c].seed \in
                      {DefaultDisplayMessage} \cup {AsDisplay(channel[k]) : k \in 1..s}
                /\ \A i \in 1..Len(conn[c].sent) :
                      conn[c].sent[i] =
                         IF UpdatesIn(conn[c].wakes, i) = 0
                         THEN conn[c].seed
                         ELSE AsDisplay(channel[s + UpdatesIn(conn[c].wakes, i)])

\* A first frame carrying a seed that is the first mutation, then a frame
\* carrying the second, different, mutation.
C21_Witness ==
    \E c \in Conns :
        /\ conn[c].subscribed
        /\ Len(channel) = 2
        /\ channel[1] # channel[2]
        /\ conn[c].seed = AsDisplay(channel[1])
        /\ conn[c].sent = <<conn[c].seed, AsDisplay(channel[2])>>

\* C25: every step that begins an iteration, whatever woke it, moves the handler
\* to its write; a frame is written only from there and is the handler's
\* DisplayMessage of that moment; and a handler in its loop has written as many
\* frames as it has begun iterations, less the one whose write is under way.
C25_OneFramePerIteration ==
    [][\A c \in Conns :
          /\ Wakes(c) => conn[c].pc = "Streaming" /\ conn'[c].pc = "Sending"
          /\ FrameSent(c) =>
                /\ conn[c].pc = "Sending"
                /\ conn'[c].sent = Append(conn[c].sent, conn[c].display_state)
          /\ conn'[c].pc = "Streaming" => Len(conn'[c].sent) = Len(conn'[c].wakes)
          /\ conn'[c].pc = "Sending" => Len(conn'[c].sent) + 1 = Len(conn'[c].wakes)]_vars

\* Three iterations, woken by a tick, a mutation and a lag, and three frames.
C25_Witness ==
    \E c \in Conns :
        /\ conn[c].pc = "Streaming"
        /\ Len(conn[c].sent) = 3
        /\ conn[c].wakes[1].kind = "tick"
        /\ conn[c].wakes[2].kind = "update"
        /\ conn[c].wakes[3].kind = "lagged"
        /\ conn[c].sent[3] = conn[c].display_state

\* C26: the step that accepts a connection gives its handler the listener's
\* DisplayMessage of that moment, and the handler still holds exactly that when
\* it waits for its hello and in its loop until an iteration receives a mutation,
\* whatever the listener has applied since.
C26_SeedIsAcceptSnapshot ==
    [][\A c \in Conns :
          /\ (conn[c].pc = "NotConnected" /\ conn'[c].pc # "NotConnected") =>
                /\ conn'[c].display_state = display_state
                /\ conn'[c].seed = display_state
          /\ ( /\ conn'[c].pc \in {"AwaitingHello", "Streaming", "Sending"}
               /\ UpdatesIn(conn'[c].wakes, Len(conn'[c].wakes)) = 0 ) =>
                conn'[c].display_state = conn'[c].seed]_vars

\* A handler accepted when the listener held the first mutation read its hello
\* after the second was sent: it holds the first, the listener the second.
C26_Witness ==
    \E c \in Conns :
        /\ conn[c].pc = "Streaming"
        /\ conn[c].wakes = <<>>
        /\ Len(channel) = 2
        /\ conn[c].receive_updates = 2
        /\ conn[c].display_state = AsDisplay(channel[1])
        /\ display_state = AsDisplay(channel[2])
        /\ channel[1] # channel[2]
        /\ conn[c].display_state # DefaultDisplayMessage

\* C27: a handler subscribes only in the step that reads its Display hello, with
\* its receiver behind everything sent so far; a handler that is not subscribed
\* begins no iteration; and an iteration that receives a mutation receives the one
\* just ahead of the receiver, which never moves back: so no mutation sent before
\* the subscription is received.
C27_NoReplay ==
    [][\A c \in Conns :
          /\ (~conn[c].subscribed /\ conn'[c].subscribed) =>
                /\ conn[c].pc = "AwaitingHello"
                /\ conn'[c].hello.kind = "Display"
                /\ conn'[c].receive_updates = Len(channel)
                /\ conn'[c].wakes = <<>>
          /\ Wakes(c) => conn[c].subscribed
          /\ (Wakes(c) /\ Woken(c).kind = "update") =>
                /\ conn[c].receive_updates < Len(channel)
                /\ Woken(c).msg = channel[conn[c].receive_updates + 1]
                /\ conn'[c].receive_updates = conn[c].receive_updates + 1
          /\ (conn[c].subscribed /\ conn'[c].subscribed) =>
                conn'[c].receive_updates >= conn[c].receive_updates]_vars

\* A handler accepted before the first mutation and subscribed after it wrote the
\* default and then the second mutation: the first was never delivered to it.
C27_Witness ==
    \E c \in Conns :
        /\ conn[c].subscribed
        /\ Len(channel) = 2
        /\ channel[1] # channel[2]
        /\ conn[c].wakes = <<[kind |-> "tick"], [kind |-> "update", msg |-> channel[2]]>>
        /\ conn[c].sent = <<DefaultDisplayMessage, AsDisplay(channel[2])>>

\* C28: a step that changes the listener's DisplayMessage is the listener
\* receiving the mutation ahead of its own receiver, and changes no handler and
\* not the channel; a step that changes the DisplayMessage of a handler in its
\* loop is that handler beginning an iteration with a received mutation, and
\* changes no other handler, not the listener's DisplayMessage, not the channel.
C28_Ownership ==
    [][/\ display_state' # display_state =>
             /\ receive_updates < Len(channel)
             /\ display_state' = AsDisplay(channel[receive_updates + 1])
             /\ receive_updates' = receive_updates + 1
             /\ conn' = conn
             /\ channel' = channel
       /\ \A c \in Conns :
             (InLoop(c) /\ conn'[c].display_state # conn[c].display_state) =>
                 /\ Wakes(c)
                 /\ Woken(c).kind = "update"
                 /\ conn'[c].display_state = AsDisplay(Woken(c).msg)
                 /\ \A d \in Conns \ {c} : conn'[d] = conn[d]
                 /\ display_state' = display_state
                 /\ channel' = channel]_vars

\* A displayer has applied and written a mutation that the listener has not yet
\* received.
C28_Witness ==
    \E c \in Conns :
        /\ InLoop(c)
        /\ channel # <<>>
        /\ conn[c].display_state = Current
        /\ conn[c].sent # <<>>
        /\ conn[c].sent[Len(conn[c].sent)] = Current
        /\ receive_updates = 0
        /\ display_state = DefaultDisplayMessage

(***************************************************************************)
(* Tasks.                                                                  *)
(***************************************************************************)
\* C22: while the handler of some connection c waits for its hello or for its
\* write to complete, the listener can accept the next connection of the run and
\* can receive what is ahead of its receiver, and every other handler can take
\* the step its own state calls for: read its hello, complete its write, begin an
\* iteration on a ready tick or on a mutation ahead of its receiver.
C22_TasksIndependent ==
    \A c \in Conns :
        conn[c].pc \in {"AwaitingHello", "Sending"} =>
            /\ \A d \in Conns :
                  ( /\ d <= run.conns
                    /\ conn[d].pc = "NotConnected"
                    /\ \A e \in Conns : e < d => conn[e].pc # "NotConnected" )
                  => ENABLED ListenerAccept(d)
            /\ receive_updates < Len(channel) => ENABLED ListenerReceive
            /\ \A d \in Conns \ {c} :
                  /\ conn[d].pc = "AwaitingHello" =>
                        ENABLED ReadHello(d, [kind |-> "Display"])
                  /\ conn[d].pc = "Sending" => ENABLED DisplayerSend(d)
                  /\ (conn[d].pc = "Streaming" /\ conn[d].tick /\ Iterations < run.frames)
                        => ENABLED DisplayerTick(d)
                  /\ ( /\ conn[d].pc = "Streaming"
                       /\ conn[d].receive_updates < Len(channel)
                       /\ Iterations < run.frames )
                        => ENABLED DisplayerReceive(d)

\* The first connection never sent its hello; the second, accepted after it, is a
\* displayer that received a mutation and wrote it, and the listener applied it.
C22_Witness ==
    \E c, d \in Conns :
        /\ c < d
        /\ conn[c].pc = "AwaitingHello"
        /\ conn[d].pc = "Streaming"
        /\ Len(conn[d].sent) = 2
        /\ conn[d].wakes[2].kind = "update"
        /\ display_state = Current
        /\ display_state # DefaultDisplayMessage

\* The moves of a handler: accepted, then its hello read, which ends it or starts
\* its loop; in the loop, select and write alternate; a write may end it.
HandlerMoves ==
    { <<"NotConnected", "AwaitingHello">>,
      <<"AwaitingHello", "Closed">>, <<"AwaitingHello", "Streaming">>,
      <<"Streaming", "Sending">>, <<"Sending", "Streaming">>,
      <<"Sending", "Closed">> }

\* What a handler has done agrees with its hello: none before the hello; no
\* subscription, iteration or frame after PersonIsUpdate, which ends it; nothing
\* published after Display, the only hello under which it is in the loop.
HelloDecides(h) ==
    /\ h.pc \in {"NotConnected", "AwaitingHello"} <=> h.hello.kind = "none"
    /\ h.hello.kind = "none" =>
          ~h.subscribed /\ h.published = <<>> /\ h.wakes = <<>> /\ h.sent = <<>>
    /\ h.hello.kind = "PersonIsUpdate" =>
          h.pc = "Closed" /\ ~h.subscribed /\ h.wakes = <<>> /\ h.sent = <<>>
    /\ h.hello.kind = "Display" => h.published = <<>>
    /\ h.pc \in {"Streaming", "Sending"} => h.hello.kind = "Display" /\ h.subscribed

\* C23: every change of a handler's position is one of HandlerMoves, and in every
\* state what the handler has done agrees with its hello.
C23_HandlerStateMachine ==
    [][\A c \in Conns :
          /\ conn'[c].pc # conn[c].pc => <<conn[c].pc, conn'[c].pc>> \in HandlerMoves
          /\ HelloDecides(conn'[c])]_vars

\* An updater that published and ended, and a displayer that was sent that
\* mutation and then ended on a failed write.
C23_Witness ==
    \E c, d \in Conns :
        /\ conn[c].hello.kind = "PersonIsUpdate"
        /\ Len(conn[c].published) = 1
        /\ conn[c].pc = "Closed"
        /\ conn[d].hello.kind = "Display"
        /\ conn[d].pc = "Closed"
        /\ conn[d].sent = <<AsDisplay(conn[c].published[1])>>

(***************************************************************************)
(* The displayer client.                                                   *)
(***************************************************************************)
\* C24: the client calls connect only with its connection Initializing, and, once
\* the connection has failed, only when more than 180 s have passed since that
\* failure; a Failed connection is left only for Initializing, without a connect
\* in the same step, when more than 180 s have passed since the last hub event;
\* and while the connection is Failed no connect or hello send is in progress.
C24_RetryBackoff ==
    [][/\ client'.attempts # client.attempts =>
             /\ client'.attempts = client.attempts + 1
             /\ client.connection = "Initializing"
             /\ client.failed_at = -1 \/ client.now - client.failed_at > 180000
       /\ (client.connection = "Failed" /\ client'.connection # "Failed") =>
             /\ client'.connection = "Initializing"
             /\ client.now - client.last_hub_update > 180000
             /\ client'.attempts = client.attempts
       /\ client'.connection = "Failed" => client'.pc = "select"]_vars

\* The first connect failed at once; the second is under way 210 s later.
C24_Witness ==
    /\ client.attempts = 2
    /\ client.failed_at = 0
    /\ client.pc = "connecting"
    /\ client.now = 210000

(***************************************************************************)
(* The listener's own subscription.                                        *)
(***************************************************************************)
\* No handler is or was a displayer: the listener's receiver is the only one.
NoDisplayers == \A d \in Conns : ~conn[d].subscribed /\ conn[d].wakes = <<>>

\* C31: the listener loop is always running and holds a receiver, so the channel
\* has at least one subscriber at every moment; and the step that reads a valid
\* PersonIsUpdate hello puts its mutation on the channel and ends with Ok, never
\* with the error of a send without receivers, also when no displayer is
\* connected.
C31_ListenerKeepsChannelOpen ==
    [][/\ listener.pc = "select"
       /\ NumReceivers >= 1
       /\ SendOk
       /\ \A c \in Conns :
             ( /\ conn[c].pc = "AwaitingHello"
               /\ conn'[c].hello.kind = "PersonIsUpdate"
               /\ is_person_is_valid(conn'[c].hello.msg.person_is) )
             => /\ conn'[c].result = "Ok"
                /\ Len(channel') = Len(channel) + 1
                /\ channel'[Len(channel')] = conn'[c].hello.msg]_vars

\* An updater published with no displayer connected, before or after, and the
\* listener applied its mutation.
C31_Witness ==
    \E c \in Conns :
        /\ NoDisplayers
        /\ conn[c].hello.kind = "PersonIsUpdate"
        /\ conn[c].result = "Ok"
        /\ channel = <<conn[c].hello.msg>>
        /\ display_state = AsDisplay(conn[c].hello.msg)

(***************************************************************************)
(* Two connections and one mutation more than the channel holds, all from  *)
(* the webhook, so that one displayer can stall in a write while the other *)
(* subscribers go on receiving.                                            *)
(***************************************************************************)
StallInit ==
    /\ HubInit
    /\ run = Run(2, Capacity + 1, 2, 0, WebhookEvents, {})
    /\ status = <<>>
    /\ status_valid = "unchecked"
    /\ client = ClientStart
    /\ set_status = SetStatusStart
    /\ renderer = RendererStart

StallSpec == StallInit /\ [][Next]_vars

\* How far the receiver at position `next` is behind the channel.
Behind(next) == Len(channel) - next

\* C32: a publish is never held back by a subscriber: while the run has mutations
\* left, a post the webhook accepts and the read of a valid PersonIsUpdate hello
\* can be taken in every state,
\* however far behind the listener or a displayer is and also while a displayer is
\* in a frame write; the publishing step appends one mutation and touches no
\* subscriber's position or place in its loop; right after it the listener and
\* every displayer waiting in its select have that mutation to receive; and a
\* displayer that stays in its write keeps its position, so it only falls further
\* behind.
C32_PublishNeverWaits ==
    [][/\ Len(channel) < run.pubs =>
             /\ \A ev \in run.events : WebhookAccepts(ev) => ENABLED WebhookPost(ev)
             /\ \A c \in Conns : conn[c].pc = "AwaitingHello" =>
                    \A first \in FirstFrames :
                        SentAfterHello(first) # {} => ENABLED ReadHello(c, first)
       /\ channel' # channel =>
             /\ Len(channel') = Len(channel) + 1
             /\ receive_updates' = receive_updates
             /\ Behind(receive_updates)' >= 1
             /\ \A c \in Conns : conn[c].subscribed =>
                    /\ conn'[c].pc = conn[c].pc
                    /\ conn'[c].receive_updates = conn[c].receive_updates
                    /\ conn'[c].sent = conn[c].sent
                    /\ Behind(conn[c].receive_updates)' = Behind(conn[c].receive_updates) + 1
                    /\ conn[c].pc = "Streaming" => RecvKind(conn[c].receive_updates)' # "Empty"
       /\ \A c \in Conns : (conn[c].pc = "Sending" /\ conn'[c].pc = "Sending") =>
             /\ conn'[c].receive_updates = conn[c].receive_updates
             /\ Behind(conn[c].receive_updates)' >= Behind(conn[c].receive_updates)]_vars

\* One displayer has been in its first write while five mutations were published:
\* it is five behind, more than the channel holds.  The listener has received all
\* of them and the other displayer has received and written the first.
C32_Witness ==
    \E c, d \in Conns :
        /\ conn[c].pc = "Sending"
        /\ conn[c].sent = <<>>
        /\ Behind(conn[c].receive_updates) = Capacity + 1
        /\ RecvKind(conn[c].receive_updates) = "Lagged"
        /\ Behind(receive_updates) = 0
        /\ display_state = Current
        /\ conn[d].pc = "Streaming"
        /\ Len(conn[d].sent) = 1
        /\ conn[d].wakes[1].kind = "update"

(***************************************************************************)
(* One connection and one mutation more than the channel holds, over a     *)
(* time shorter than the heartbeat period: the only tick is the first one. *)
(* A receive that stays ready is eventually taken, since select! polls its *)
(* ready branches in a random order, and a write that has begun eventually *)
(* completes, with Ok or with Err.                                         *)
(***************************************************************************)
RecoveryInit ==
    /\ HubInit
    /\ run = Run(1, Capacity + 1, Capacity + 2, 0, BoundaryWebhookEvents, {})
    /\ status = <<>>
    /\ status_valid = "unchecked"
    /\ client = ClientStart
    /\ set_status = SetStatusStart
    /\ renderer = RendererStart

RecoveryNext ==
    \/ \E c \in Conns : ListenerAccept(c)
    \/ ListenerReceive
    \/ \E c \in Conns : \E first \in FirstFrames : ReadHello(c, first)
    \/ \E c \in Conns : DisplayerTick(c)
    \/ \E c \in Conns : DisplayerReceive(c)
    \/ \E c \in Conns : DisplayerSend(c)
    \/ \E c \in Conns : DisplayerSendFail(c)
    \/ \E ev \in run.events : WebhookPost(ev)

RecoverySpec ==
    /\ RecoveryInit
    /\ [][RecoveryNext]_vars
    /\ WF_vars(ListenerReceive)
    /\ \A c \in Conns : WF_vars(DisplayerReceive(c))
    /\ \A c \in Conns : WF_vars(DisplayerSend(c) \/ DisplayerSendFail(c))

\* The handler of c has seen a lag signal.
HasLagged(c) == ~NeverLagged(conn[c].wakes)

\* The displayer c has nothing left to receive, holds the last published mutation
\* and wrote it in its last frame.
Converged(c) ==
    /\ conn[c].pc = "Streaming"
    /\ conn[c].receive_updates = Len(channel)
    /\ conn[c].display_state = Current
    /\ conn[c].sent # <<>>
    /\ conn[c].sent[Len(conn[c].sent)] = Current

\* A subscriber has seen a lag signal.
SeenLag == listener.lags > 0 \/ \E c \in Conns : conn[c].subscribed /\ HasLagged(c)

\* Every subscriber that has seen a lag signal has nothing left to receive and
\* holds the last published mutation, a displayer having written it too.
Recovered ==
    /\ listener.lags > 0 => (receive_updates = Len(channel) /\ display_state = Current)
    /\ \A c \in Conns : (conn[c].subscribed /\ HasLagged(c)) => Converged(c)

\* C33: the step in which a subscriber (the listener or a displayer) sees a lag
\* leaves it at the oldest of the 4 retained mutations, the newest among them, and
\* each later receive delivers the mutation at its position and moves on by one; a
\* subscriber that has seen a lag and has nothing left to receive holds the last
\* published mutation, and the listener keeps it once publishing has stopped; and
\* once publishing has stopped, every subscriber that has seen a lag comes to hold
\* the last published mutation, a displayer also to have written it, unless a
\* failed write ended that displayer.
C33_LagRecovery ==
    /\ [][/\ listener'.lags # listener.lags =>
                /\ receive_updates' = Len(channel) - Capacity
                /\ Len(channel') = Len(channel)
          /\ (listener.lags > 0 /\ receive_updates' # receive_updates) =>
                /\ receive_updates' = receive_updates + 1
                /\ display_state' = AsDisplay(channel[receive_updates + 1])
          /\ \A c \in Conns :
                /\ (Wakes(c) /\ Woken(c).kind = "lagged") =>
                      conn'[c].receive_updates = Len(channel) - Capacity
                /\ (HasLagged(c) /\ Wakes(c) /\ Woken(c).kind = "update") =>
                      /\ Woken(c).msg = channel[conn[c].receive_updates + 1]
                      /\ conn'[c].receive_updates = conn[c].receive_updates + 1
                      /\ conn'[c].display_state = AsDisplay(Woken(c).msg)]_vars
    /\ []((listener.lags > 0 /\ receive_updates = Len(channel)) => display_state = Current)
    /\ [](\A c \in Conns :
            (conn[c].subscribed /\ HasLagged(c) /\ conn[c].receive_updates = Len(channel))
               => conn[c].display_state = Current)
    /\ [][(Len(channel) = run.pubs /\ receive_updates = Len(channel)) =>
             display_state' = display_state]_vars
    /\ (Len(channel) = run.pubs /\ SeenLag) ~> Recovered

\* The listener and the displayer both saw a lag after five mutations, lost the
\* first, which differs from the last, received the four retained ones and hold
\* the last; the displayer wrote it.
C33_Witness ==
    \E c \in Conns :
        /\ listener.lags = 1
        /\ receive_updates = Len(channel)
        /\ display_state = Current
        /\ HasLagged(c)
        /\ Converged(c)
        /\ Len(LagFreeUpdates(conn[c].wakes)) = Capacity
        /\ Len(channel) = Capacity + 1
        /\ channel[1] # channel[Len(channel)]
        /\ channel[Len(channel) - 1] # channel[Len(channel)]

(***************************************************************************)
(* The hub with two connections whose clients may close their sockets      *)
(* while their handlers are in the displayer loop.                         *)
(***************************************************************************)
CloseInit ==
    /\ HubInit
    /\ run = Run(2, MaxPub, MaxFrames, 0, WebhookEvents, {})
    /\ status = <<>>
    /\ status_valid = "unchecked"
    /\ client = ClientStart
    /\ set_status = SetStatusStart
    /\ renderer = RendererStart

CloseNext ==
    \/ Next
    \/ \E c \in Conns : PeerCloses(c)

CloseSpec == CloseInit /\ [][CloseNext]_vars

\* The client of c has closed its socket.
PeerClosed(c) == conn[c].peer_closed_at # -1

\* The handler of c waits in its select with nothing to wake it.
Idle(c) ==
    /\ conn[c].pc = "Streaming"
    /\ ~conn[c].tick
    /\ RecvKind(conn[c].receive_updates) = "Empty"

\* C34: a handler in its displayer loop reads nothing more from its socket; the
\* step in which its client closes the socket changes nothing in the handler, its
\* subscription or the hub; the handler leaves its select only to begin an
\* iteration woken by a tick, a mutation or a lag, and ends only in the step that
\* completes a write without a frame, with Err; so a handler whose client has
\* closed stays subscribed, and stays in its select, beginning no iteration and
\* writing nothing, while neither a tick nor a mutation is there to wake it.
C34_EndsOnlyByFailedWrite ==
    [][\A c \in Conns :
          /\ InLoop(c) => conn'[c].hello = conn[c].hello
          /\ (~PeerClosed(c) /\ PeerClosed(c)') =>
                /\ conn' = [conn EXCEPT ![c].peer_closed_at = Len(conn[c].wakes)]
                /\ UNCHANGED <<channel, display_state, receive_updates, listener>>
          /\ (conn[c].pc = "Streaming" /\ conn'[c].pc # "Streaming") =>
                /\ conn'[c].pc = "Sending"
                /\ Wakes(c)
                /\ Woken(c).kind \in {"tick", "update", "lagged"}
          /\ (InLoop(c) /\ ~InLoop(c)') =>
                /\ conn[c].pc = "Sending"
                /\ WriteFails(c)
                /\ conn'[c].pc = "Closed"
                /\ conn'[c].result = "Err"
          /\ (InLoop(c) /\ PeerClosed(c)) => conn[c].subscribed
          /\ (Idle(c) /\ PeerClosed(c)) =>
                /\ conn'[c].pc = "Streaming"
                /\ conn'[c].subscribed
                /\ conn'[c].wakes = conn[c].wakes
                /\ conn'[c].sent = conn[c].sent]_vars

\* The client closed after the first frame; the handler stayed subscribed until a
\* mutation woke it, and the write of that iteration failed.
C34_Witness ==
    \E c \in Conns :
        /\ conn[c].peer_closed_at = 1
        /\ Len(conn[c].sent) = 1
        /\ Len(conn[c].wakes) = 2
        /\ conn[c].wakes[2].kind = "update"
        /\ conn[c].pc = "Closed"
        /\ conn[c].result = "Err"
        /\ conn[c].display_state = Current

(***************************************************************************)
(* The displayer client's connections.                                     *)
(***************************************************************************)
\* A hello send is in progress on a connection that config.connect() returned.
Greeting == IF client.pc = "greeting" THEN 1 ELSE 0

\* C35, as stated: every connection the client opens carries exactly one hello,
\* sent before any read, unless the hello send failed, which made the connection
\* Failed: the connections opened are those whose hello was sent, those whose
\* hello send returned an error, and the one being greeted now.
C35_OneHelloPerConnection ==
    client.opened = client.hellos + client.hello_errors + Greeting

\* C35, amended: the client sends at most one frame on a connection, a Display
\* hello, and polls a connection for frames only after that hello was sent; the
\* connection becomes Open only in the step in which the hello send returns Ok,
\* which follows a connect that returned Ok; a connect or a hello send that
\* returns an error makes the connection Failed and reports the failure; and
\* every opened connection either had its hello sent, or had its hello send fail,
\* or is being greeted, or was dropped during the hello send by a wake-up tick
\* that won the select, in which case the connection stays Initializing and the
\* client connects anew.
C35_HelloBeforeOpen ==
    [][/\ client'.wire \in {<<>>, <<"Display">>}
       /\ client'.hellos # client.hellos =>
             /\ client.pc = "greeting"
             /\ client.wire = <<>>
             /\ ~client.has_read
             /\ client'.hellos = client.hellos + 1
             /\ client'.wire = <<"Display">>
             /\ client'.connection = "Open"
       /\ (client.connection # "Open" /\ client'.connection = "Open") =>
             /\ client.pc = "greeting"
             /\ client'.hellos = client.hellos + 1
       /\ (~client.has_read /\ client'.has_read) =>
             /\ client.connection = "Open"
             /\ client.wire = <<"Display">>
       /\ client'.opened # client.opened =>
             /\ client.pc = "connecting"
             /\ client'.pc = "greeting"
             /\ client'.connection = "Initializing"
       /\ ( /\ client.pc \in {"connecting", "greeting"}
            /\ client'.pc = "select"
            /\ client'.next_tick = client.next_tick
            /\ client'.connection # "Open" ) =>
             /\ client'.connection = "Failed"
             /\ client'.failed_at = client.now
             /\ client'.last_hub_update = client.now
       /\ client'.cut # client.cut =>
             /\ client.pc = "greeting"
             /\ client'.next_tick # client.next_tick
             /\ client'.connection = "Initializing"
             /\ client'.pc = "select"
       /\ client.opened =
             client.hellos + client.hello_errors + client.cut + Greeting]_vars

\* Three connections were opened: one was dropped by a tick during its hello
\* send, one had its hello send fail, and the last one is Open after its hello
\* and has been read from.
C35_Witness ==
    /\ client.opened = 3
    /\ client.cut = 1
    /\ client.hello_errors = 1
    /\ client.hellos = 1
    /\ client.connection = "Open"
    /\ client.wire = <<"Display">>
    /\ client.has_read

\* C36: the step that takes the connection out of Open makes it Failed, after a
\* read of that connection, and returns one error; an error is returned only by
\* a step that makes the connection Failed; while the connection is Failed no
\* connect, hello send or read can begin, no message and no further error is
\* returned, and nothing is in progress; and the connection leaves Failed only
\* for Initializing, by the housekeeping of a main loop iteration, with no
\* connect begun in that step.
C36_FailedIsQuiet ==
    [][/\ (client.connection = "Open" /\ client'.connection # "Open") =>
             /\ client'.connection = "Failed"
             /\ client'.has_read
             /\ client'.reports = client.reports + 1
             /\ client'.failed_at = client.now
       /\ client'.reports # client.reports =>
             /\ client'.reports = client.reports + 1
             /\ client.connection # "Failed"
             /\ client'.connection = "Failed"
       /\ client.connection = "Failed" =>
             /\ client.pc = "select"
             /\ ~ENABLED ClientConnectStart
             /\ ~ENABLED ClientReceives
             /\ ~ENABLED ClientHubLost
             /\ client'.reports = client.reports
             /\ client'.last_hub_update = client.last_hub_update
             /\ client'.has_read = client.has_read
             /\ client'.attempts = client.attempts
             /\ client'.opened = client.opened
             /\ client'.connection \in {"Failed", "Initializing"}
       /\ (client.connection = "Failed" /\ client'.connection # "Failed") =>
             /\ client'.connection = "Initializing"
             /\ client'.pc = "select"
             /\ client'.next_tick # client.next_tick]_vars

\* The hub was lost on two connections, each read from after its hello; each loss
\* was reported once, and the second connection was made after the first had been
\* replaced by a fresh one.
C36_Witness ==
    /\ client.connection = "Failed"
    /\ client.reports = 2
    /\ client.hellos = 2
    /\ client.attempts = client.opened
    /\ client.has_read
    /\ client.failed_at > RetryMillis

\* C37: the wake-up interval can fire whenever it is due, whatever the state of
\* the connection; a main loop iteration that finds the connection Failed resets
\* it to Initializing exactly when more than 180 s have passed since the last hub
\* event; and a Failed connection whose retry delay ends before the last wake-up
\* of the run leads to a new connect being under way.
C37_ReconnectsEventually ==
    /\ [](client.now >= client.next_tick => ENABLED ClientTick)
    /\ [][(client.connection = "Failed" /\ client'.next_tick # client.next_tick) =>
             /\ client'.next_tick = client.next_tick + WakeupMillis
             /\ (client'.connection = "Initializing")
                   <=> (client.now - client.last_hub_update > RetryMillis)]_vars
    /\ (client.connection = "Failed" /\ client.last_hub_update + RetryMillis < Horizon)
          ~> (client.connection = "Initializing" /\ client.pc = "connecting")

\* The hub was lost after 30 s on a connection that had been read from; 210 s
\* later the next connect is under way.
C37_Witness ==
    /\ client.pc = "connecting"
    /\ client.connection = "Initializing"
    /\ client.reports = 1
    /\ client.has_read
    /\ client.failed_at = ClockStep
    /\ client.now = ClockStep + RetryMillis + ClockStep

(***************************************************************************)
(* The set-status command.                                                 *)
(***************************************************************************)
\* C38: before the status has been checked the command has opened no connection
\* and sent nothing; a status of 23 bytes or more ends the command with Err at the
\* check, without a connection and without a frame; the command opens at most one
\* connection and sends at most one frame, a PersonIsUpdate hello with the status
\* given; and a command that returned Ok had a valid status, opened one connection
\* and sent exactly that one hello.
C38_ValidatesBeforeConnecting ==
    /\ status_valid = "unchecked" =>
          /\ set_status.pc = "validate"
          /\ set_status.opened = 0
          /\ set_status.sent = <<>>
    /\ (status_valid # "unchecked" /\ StrLen(status) >= 23) =>
          /\ set_status.pc = "done"
          /\ set_status.rv = "Err"
          /\ set_status.opened = 0
          /\ set_status.sent = <<>>
    /\ set_status.opened <= 1
    /\ Len(set_status.sent) <= set_status.opened
    /\ \A i \in 1..Len(set_status.sent) :
          /\ set_status.sent[i].kind = "PersonIsUpdate"
          /\ set_status.sent[i].msg.person_is = status
          /\ StrLen(status) <= 22
    /\ set_status.rv = "Ok" =>
          /\ set_status.pc = "done"
          /\ StrLen(status) <= 22
          /\ set_status.opened = 1
          /\ Len(set_status.sent) = 1
    /\ set_status.pc = "done" <=> set_status.rv # "running"

\* A status of 23 bytes in 9 characters was refused: the command is over with
\* Err, and nothing was opened or sent.
C38_Witness ==
    /\ StrLen(status) = 23
    /\ Len(status) = 9
    /\ set_status.pc = "done"
    /\ set_status.rv = "Err"
    /\ set_status.opened = 0
    /\ set_status.sent = <<>>

(***************************************************************************)
(* The renderer thread.                                                    *)
(***************************************************************************)
\* The newest item shown on the display so far, or 0.
LastRendered ==
    IF renderer.rendered = <<>> THEN 0 ELSE renderer.rendered[Len(renderer.rendered)]

\* The queue holds, oldest first, the newest items sent.
QueueInOrder ==
    renderer.pc # "exited" =>
        renderer.queue =
            [i \in 1..Len(renderer.queue) |-> renderer.sent - Len(renderer.queue) + i]

\* C39: the queue is first-in first-out; the step that ends the drain finds the
\* queue empty and leaves the thread holding the newest item sent so far, so the
\* thread never begins to render an item when a newer one was queued at the end of
\* its drain; the step that renders shows the item held, which is newer than every
\* item shown before; and every item sent is eventually on the display, or a
\* newer one is, unless a rendering failed and ended the thread.
C39_RendersNewest ==
    /\ []QueueInOrder
    /\ [][/\ (renderer.pc # "render" /\ renderer'.pc = "render") =>
                /\ renderer.pc = "drain"
                /\ renderer.queue = <<>>
                /\ renderer'.dd = renderer.dd
                /\ renderer.dd = renderer.sent
          /\ renderer'.rendered # renderer.rendered =>
                /\ renderer.pc = "render"
                /\ renderer'.rendered = Append(renderer.rendered, renderer.dd)
                /\ renderer.dd > LastRendered
                /\ renderer.dd + Len(renderer.queue) = renderer.sent]_vars
    /\ \A n \in 1..MaxItems :
          (renderer.sent = n) ~> (LastRendered >= n \/ renderer.pc = "exited")

\* Four items were sent; the first was shown, the second and third were passed
\* over in a drain, and the fourth is on the display.
C39_Witness ==
    /\ renderer.rendered = <<1, 4>>
    /\ renderer.sent = 4
    /\ renderer.pc = "recv"
    /\ renderer.queue = <<>>

====
